---- MODULE Spec2Model ----
(***************************************************************************)
(* Model of the company-search query compiler of nest-mcp                  *)
(* (src/src/tool.rs, build_company_search_query).                          *)
(*                                                                         *)
(* Text is modelled by TLA+ strings, so every format!, trim, contains,     *)
(* replace and join of the source is computed character by character and   *)
(* the compiled query is the very text the program returns.                *)
(***************************************************************************)
EXTENDS Integers, Sequences, FiniteSets, TLC

VARIABLES
    request, result, pc,    \* one compilation of one request
    company, selected,      \* a row of hello_nest, and whether a query keeps it
    calls, connections,     \* tool invocations and the connections they open
    http_request, response, \* a request at the HTTP perimeter and its answer
    database                \* the database file nest_mcp.db and what it holds

vars == <<request, result, pc, company, selected, calls, connections,
          http_request, response, database>>

\* the parts of the state that a specification leaves untouched
NoRow == company = {} /\ selected = FALSE
NoCalls == calls = << >> /\ connections = << >>
NoHttp == http_request = << >> /\ response = << >>
NoDatabase == database = << >>

(***************************************************************************)
(* Bounds of the explored inputs.                                          *)
(***************************************************************************)
\* longest company name / company purpose text explored
MaxTextLen == 3
\* longest category list explored
MaxCats == 2
\* years explored lie within YearSlack of one of the two limits of the code
YearSlack == 1
\* revenue / employee bounds explored: multiples of 0.5 up to NumHalves / 2
NumHalves == 2

(***************************************************************************)
(* Option<T>: None is the empty sequence, Some(v) the one-element one.     *)
(***************************************************************************)
None == <<>>
Some(v) == <<v>>
IsSome(o) == Len(o) = 1
Unwrap(o) == o[1]

(***************************************************************************)
(* str primitives of the Rust standard library used by the compiler.       *)
(***************************************************************************)
CharAt(s, i) == SubSeq(s, i, i)

\* char::is_whitespace, restricted to the white space the inputs can hold
IsWhitespace(c) == c \in {" ", "\n", "\t"}

\* str::contains(pat)
Contains(s, pat) ==
    \E i \in 1..(Len(s) - Len(pat) + 1) : SubSeq(s, i, i + Len(pat) - 1) = pat

RECURSIVE TrimStart(_)
TrimStart(s) ==
    IF s = "" THEN ""
    ELSE IF IsWhitespace(CharAt(s, 1)) THEN TrimStart(SubSeq(s, 2, Len(s)))
    ELSE s

RECURSIVE TrimEnd(_)
TrimEnd(s) ==
    IF s = "" THEN ""
    ELSE IF IsWhitespace(CharAt(s, Len(s))) THEN TrimEnd(SubSeq(s, 1, Len(s) - 1))
    ELSE s

\* str::trim
Trim(s) == TrimEnd(TrimStart(s))

\* str::replace("'", "''")
RECURSIVE EscapeQuotes(_)
EscapeQuotes(s) ==
    IF s = "" THEN ""
    ELSE (IF CharAt(s, 1) = "'" THEN "''" ELSE CharAt(s, 1))
             \o EscapeQuotes(SubSeq(s, 2, Len(s)))

\* [String]::join(sep)
RECURSIVE Join(_, _)
Join(parts, sep) ==
    IF Len(parts) = 0 THEN ""
    ELSE IF Len(parts) = 1 THEN parts[1]
    ELSE parts[1] \o sep \o Join(Tail(parts), sep)

Digit(d) == CharAt("0123456789", d + 1)

RECURSIVE NatToStr(_)
NatToStr(n) == IF n < 10 THEN Digit(n) ELSE NatToStr(n \div 10) \o Digit(n % 10)

\* Display of an i64, as format!("{}", _) prints it
I64ToStr(n) == IF n < 0 THEN "-" \o NatToStr(0 - n) ELSE NatToStr(n)

(***************************************************************************)
(* f64: a finite value k/2 with its sign bit, [neg, halves]; the sign bit  *)
(* tells -0.0 from 0.0.  Requests reach the compiler from JSON, which has  *)
(* no NaN and no infinity.                                                 *)
(***************************************************************************)
F64(neg, halves) == [neg |-> neg, halves |-> halves]
F64Val(x) == IF x.neg THEN 0 - x.halves ELSE x.halves
\* the f64 comparisons of the source
F64Gt(x, y) == F64Val(x) > F64Val(y)
F64Lt(x, y) == F64Val(x) < F64Val(y)
F64Zero == F64(FALSE, 0)

\* Display of an f64, as format!("{}", _) prints it: no exponent, no ".0"
F64ToStr(x) ==
    (IF x.neg THEN "-" ELSE "")
        \o NatToStr(x.halves \div 2)
        \o (IF x.halves % 2 = 1 THEN ".5" ELSE "")

(***************************************************************************)
(* Result<String, McpError>                                                *)
(***************************************************************************)
Ok(sql) == [kind |-> "Ok", sql |-> sql, message |-> ""]
invalid_params(message) == [kind |-> "invalid_params", sql |-> "", message |-> message]

\* what one filter block of the compiler does: return an error, or push
\* zero or one condition
Reject(message) == [error |-> Some(message), conditions |-> <<>>]
Push(condition) == [error |-> None, conditions |-> <<condition>>]
Skip == [error |-> None, conditions |-> <<>>]

(***************************************************************************)
(* SearchRequest (tool.rs 19-55): six optional filters.                    *)
(***************************************************************************)
SearchRequest(name, year, cats, purpose, revenue, employees) ==
    [company_name |-> name, foundation_year |-> year, nace_categories |-> cats,
     company_purpose |-> purpose, revenue_range |-> revenue,
     employee_range |-> employees]

\* the limits of the foundation-year check
MinYear == 1800
MaxYear == 2024

\* the "Basic SQL injection protection" test applied to a trimmed text
HasInvalidCharacters(text) ==
    Contains(text, "'") \/ Contains(text, ";") \/ Contains(text, "--")

(***************************************************************************)
(* The six filter blocks of build_company_search_query, in source order.   *)
(***************************************************************************)
\* company_name block without the is_empty test on the trimmed name
company_name_block_no_empty_test(search_request) ==
    IF IsSome(search_request.company_name)
    THEN LET trimmed_name == Trim(Unwrap(search_request.company_name)) IN
         IF HasInvalidCharacters(trimmed_name)
         THEN Reject("Invalid characters in company name")
         ELSE Push("company_name ILIKE '%" \o trimmed_name \o "%'")
    ELSE Skip


\* the name block without its injection test
company_name_block_no_injection_test(search_request) ==
    IF IsSome(search_request.company_name)
    THEN LET trimmed_name == Trim(Unwrap(search_request.company_name)) IN
         IF trimmed_name # ""
         THEN Push("company_name ILIKE '%" \o trimmed_name \o "%'")
         ELSE Skip
    ELSE Skip

company_name_block(search_request) ==
    IF IsSome(search_request.company_name)
    THEN LET trimmed_name == Trim(Unwrap(search_request.company_name)) IN
         IF trimmed_name # ""
         THEN IF HasInvalidCharacters(trimmed_name)
              THEN Reject("Invalid characters in company name")
              ELSE Push("company_name ILIKE '%" \o trimmed_name \o "%'")
         ELSE Skip
    ELSE Skip

\* the foundation-year block with the limits themselves excluded
foundation_year_block_limits_excluded(search_request) ==
    IF IsSome(search_request.foundation_year)
    THEN LET min_year == Unwrap(search_request.foundation_year)[1]
             max_year == Unwrap(search_request.foundation_year)[2]
         IN  IF min_year > max_year
             THEN Reject("Minimum year cannot be greater than maximum year")
             ELSE IF min_year <= MinYear \/ max_year >= MaxYear
             THEN Reject("Years must be between 1800 and 2024")
             ELSE Push("foundation_year BETWEEN " \o I64ToStr(min_year)
                           \o " AND " \o I64ToStr(max_year))
    ELSE Skip


foundation_year_block(search_request) ==
    IF IsSome(search_request.foundation_year)
    THEN LET min_year == Unwrap(search_request.foundation_year)[1]
             max_year == Unwrap(search_request.foundation_year)[2]
         IN  IF min_year > max_year
             THEN Reject("Minimum year cannot be greater than maximum year")
             ELSE IF min_year < MinYear \/ max_year > MaxYear
             THEN Reject("Years must be between 1800 and 2024")
             ELSE Push("foundation_year BETWEEN " \o I64ToStr(min_year)
                           \o " AND " \o I64ToStr(max_year))
    ELSE Skip

\* the category loop without its injection test
RECURSIVE category_loop_no_injection_test(_, _)
category_loop_no_injection_test(nace_categories, category_conditions) ==
    IF Len(nace_categories) = 0
    THEN [error |-> None, conditions |-> category_conditions]
    ELSE LET trimmed_category == Trim(Head(nace_categories)) IN
         IF trimmed_category # ""
         THEN category_loop_no_injection_test(Tail(nace_categories),
                  Append(category_conditions,
                         "'" \o trimmed_category \o "' = ANY(nace_categories)"))
         ELSE category_loop_no_injection_test(Tail(nace_categories),
                                              category_conditions)

\* the for loop over the category entries: the first offending entry returns
\* the error, every other non-blank entry pushes one membership test
RECURSIVE category_loop(_, _)
category_loop(nace_categories, category_conditions) ==
    IF Len(nace_categories) = 0
    THEN [error |-> None, conditions |-> category_conditions]
    ELSE LET trimmed_category == Trim(Head(nace_categories)) IN
         IF trimmed_category # ""
         THEN IF HasInvalidCharacters(trimmed_category)
              THEN Reject("Invalid characters in NACE categories")
              ELSE category_loop(Tail(nace_categories),
                       Append(category_conditions,
                              "'" \o trimmed_category \o "' = ANY(nace_categories)"))
         ELSE category_loop(Tail(nace_categories), category_conditions)

\* the category block joining its tests with AND
nace_categories_block_and_joined(search_request) ==
    IF IsSome(search_request.nace_categories)
    THEN LET nace_categories == Unwrap(search_request.nace_categories) IN
         IF Len(nace_categories) # 0
         THEN LET looped == category_loop(nace_categories, <<>>) IN
              IF IsSome(looped.error) THEN looped
              ELSE IF Len(looped.conditions) # 0
              THEN Push("(" \o Join(looped.conditions, " AND ") \o ")")
              ELSE Skip
         ELSE Skip
    ELSE Skip

nace_categories_block(search_request) ==
    IF IsSome(search_request.nace_categories)
    THEN LET nace_categories == Unwrap(search_request.nace_categories) IN
         IF Len(nace_categories) # 0
         THEN LET looped == category_loop(nace_categories, <<>>) IN
              IF IsSome(looped.error) THEN looped
              ELSE IF Len(looped.conditions) # 0
              THEN Push("(" \o Join(looped.conditions, " OR ") \o ")")
              ELSE Skip
         ELSE Skip
    ELSE Skip

\* the purpose block without its injection test
company_purpose_block_no_injection_test(search_request) ==
    IF IsSome(search_request.company_purpose)
    THEN LET trimmed_purpose == Trim(Unwrap(search_request.company_purpose)) IN
         IF trimmed_purpose # ""
         THEN Push("fts_main_hello_nest.match_bm25(company_id, '"
                       \o trimmed_purpose \o "') IS NOT NULL")
         ELSE Skip
    ELSE Skip


\* the purpose block without its is_empty test: a blank purpose is searched
company_purpose_block_blank_searched(search_request) ==
    IF IsSome(search_request.company_purpose)
    THEN LET trimmed_purpose == Trim(Unwrap(search_request.company_purpose)) IN
         IF HasInvalidCharacters(trimmed_purpose)
         THEN Reject("Invalid characters in company purpose")
         ELSE Push("fts_main_hello_nest.match_bm25(company_id, '"
                       \o trimmed_purpose \o "') IS NOT NULL")
    ELSE Skip

company_purpose_block(search_request) ==
    IF IsSome(search_request.company_purpose)
    THEN LET trimmed_purpose == Trim(Unwrap(search_request.company_purpose)) IN
         IF trimmed_purpose # ""
         THEN IF HasInvalidCharacters(trimmed_purpose)
              THEN Reject("Invalid characters in company purpose")
              ELSE Push("fts_main_hello_nest.match_bm25(company_id, '"
                            \o trimmed_purpose \o "') IS NOT NULL")
         ELSE Skip
    ELSE Skip

\* has_text_search set for every present purpose, blank or not
has_text_search_when_present(search_request) ==
    IsSome(search_request.company_purpose)

\* has_text_search: set where the purpose block pushes its condition
has_text_search(search_request) ==
    /\ IsSome(search_request.company_purpose)
    /\ Trim(Unwrap(search_request.company_purpose)) # ""

\* the revenue condition with the year 2019 left out
revenue_condition_without_2019(min_revenue, max_revenue) ==
    "EXISTS (SELECT 1 FROM (VALUES\n"
        \o "                (financial_data['2016']['Sales revenues']),\n"
        \o "                (financial_data['2017']['Sales revenues']),\n"
        \o "                (financial_data['2018']['Sales revenues']),\n"
        \o "                (financial_data['2020']['Sales revenues']),\n"
        \o "                (financial_data['2021']['Sales revenues']),\n"
        \o "                (financial_data['2022']['Sales revenues']),\n"
        \o "                (financial_data['2023']['Sales revenues']),\n"
        \o "                (financial_data['2024']['Sales revenues'])\n"
        \o "            ) AS revenue_data(revenue)\n"
        \o "            WHERE revenue IS NOT NULL AND revenue BETWEEN "
        \o F64ToStr(min_revenue) \o " AND " \o F64ToStr(max_revenue) \o ")"

\* the format! literal of the revenue condition (tool.rs 507-518)
revenue_condition(min_revenue, max_revenue) ==
    "EXISTS (SELECT 1 FROM (VALUES\n"
        \o "                (financial_data['2016']['Sales revenues']),\n"
        \o "                (financial_data['2017']['Sales revenues']),\n"
        \o "                (financial_data['2018']['Sales revenues']),\n"
        \o "                (financial_data['2019']['Sales revenues']),\n"
        \o "                (financial_data['2020']['Sales revenues']),\n"
        \o "                (financial_data['2021']['Sales revenues']),\n"
        \o "                (financial_data['2022']['Sales revenues']),\n"
        \o "                (financial_data['2023']['Sales revenues']),\n"
        \o "                (financial_data['2024']['Sales revenues'])\n"
        \o "            ) AS revenue_data(revenue)\n"
        \o "            WHERE revenue IS NOT NULL AND revenue BETWEEN "
        \o F64ToStr(min_revenue) \o " AND " \o F64ToStr(max_revenue) \o ")"

\* the revenue block rejecting min_revenue >= max_revenue
revenue_range_block_equal_rejected(search_request) ==
    IF IsSome(search_request.revenue_range)
    THEN LET min_revenue == Unwrap(search_request.revenue_range)[1]
             max_revenue == Unwrap(search_request.revenue_range)[2]
         IN  IF ~F64Lt(min_revenue, max_revenue)
             THEN Reject("Minimum revenue cannot be greater than maximum revenue")
             ELSE IF F64Lt(min_revenue, F64Zero) \/ F64Lt(max_revenue, F64Zero)
             THEN Reject("Revenue values must be non-negative")
             ELSE Push(revenue_condition(min_revenue, max_revenue))
    ELSE Skip


\* the revenue block testing the sign of the bounds before their order
revenue_range_block_bounds_first(search_request) ==
    IF IsSome(search_request.revenue_range)
    THEN LET min_revenue == Unwrap(search_request.revenue_range)[1]
             max_revenue == Unwrap(search_request.revenue_range)[2]
         IN  IF F64Lt(min_revenue, F64Zero) \/ F64Lt(max_revenue, F64Zero)
             THEN Reject("Revenue values must be non-negative")
             ELSE IF F64Gt(min_revenue, max_revenue)
             THEN Reject("Minimum revenue cannot be greater than maximum revenue")
             ELSE Push(revenue_condition(min_revenue, max_revenue))
    ELSE Skip

revenue_range_block(search_request) ==
    IF IsSome(search_request.revenue_range)
    THEN LET min_revenue == Unwrap(search_request.revenue_range)[1]
             max_revenue == Unwrap(search_request.revenue_range)[2]
         IN  IF F64Gt(min_revenue, max_revenue)
             THEN Reject("Minimum revenue cannot be greater than maximum revenue")
             ELSE IF F64Lt(min_revenue, F64Zero) \/ F64Lt(max_revenue, F64Zero)
             THEN Reject("Revenue values must be non-negative")
             ELSE Push(revenue_condition(min_revenue, max_revenue))
    ELSE Skip

\* the format! literal of the employee condition (tool.rs 539-550)
employee_condition(min_employees, max_employees) ==
    "EXISTS (SELECT 1 FROM (VALUES\n"
        \o "                (financial_data['2016']['Employees from accounting']),\n"
        \o "                (financial_data['2017']['Employees from accounting']),\n"
        \o "                (financial_data['2018']['Employees from accounting']),\n"
        \o "                (financial_data['2019']['Employees from accounting']),\n"
        \o "                (financial_data['2020']['Employees from accounting']),\n"
        \o "                (financial_data['2021']['Employees from accounting']),\n"
        \o "                (financial_data['2022']['Employees from accounting']),\n"
        \o "                (financial_data['2023']['Employees from accounting']),\n"
        \o "                (financial_data['2024']['Employees from accounting'])\n"
        \o "            ) AS employee_data(employees)\n"
        \o "            WHERE employees IS NOT NULL AND employees BETWEEN "
        \o F64ToStr(min_employees) \o " AND " \o F64ToStr(max_employees) \o ")"

\* the employee block without the test min_employees > max_employees
employee_range_block_no_order_test(search_request) ==
    IF IsSome(search_request.employee_range)
    THEN LET min_employees == Unwrap(search_request.employee_range)[1]
             max_employees == Unwrap(search_request.employee_range)[2]
         IN  IF F64Lt(min_employees, F64Zero) \/ F64Lt(max_employees, F64Zero)
             THEN Reject("Employee count values must be non-negative")
             ELSE Push(employee_condition(min_employees, max_employees))
    ELSE Skip


employee_range_block(search_request) ==
    IF IsSome(search_request.employee_range)
    THEN LET min_employees == Unwrap(search_request.employee_range)[1]
             max_employees == Unwrap(search_request.employee_range)[2]
         IN  IF F64Gt(min_employees, max_employees)
             THEN Reject("Minimum employee count cannot be greater than maximum employee count")
             ELSE IF F64Lt(min_employees, F64Zero) \/ F64Lt(max_employees, F64Zero)
             THEN Reject("Employee count values must be non-negative")
             ELSE Push(employee_condition(min_employees, max_employees))
    ELSE Skip

\* the blocks with the purpose block moved before the category block
filter_blocks_purpose_first(search_request) ==
    << company_name_block(search_request),
       foundation_year_block(search_request),
       company_purpose_block(search_request),
       nace_categories_block(search_request),
       revenue_range_block(search_request),
       employee_range_block(search_request) >>

\* the blocks in the order the function runs them
filter_blocks(search_request) ==
    << company_name_block(search_request),
       foundation_year_block(search_request),
       nace_categories_block(search_request),
       company_purpose_block(search_request),
       revenue_range_block(search_request),
       employee_range_block(search_request) >>

\* the ORDER BY tail ranking by the purpose as given, not trimmed
order_by_clause_untrimmed(search_request) ==
    IF has_text_search(search_request)
    THEN " ORDER BY fts_main_hello_nest.match_bm25(company_id, '"
             \o (IF IsSome(search_request.company_purpose)
                 THEN EscapeQuotes(Unwrap(search_request.company_purpose))
                 ELSE "")
             \o "') DESC, company_name LIMIT 1000"
    ELSE " ORDER BY company_name LIMIT 1000"

\* the ORDER BY / LIMIT tail (tool.rs 560-569)
order_by_clause(search_request) ==
    IF has_text_search(search_request)
    THEN " ORDER BY fts_main_hello_nest.match_bm25(company_id, '"
             \o (IF IsSome(search_request.company_purpose)
                 THEN EscapeQuotes(Trim(Unwrap(search_request.company_purpose)))
                 ELSE "")
             \o "') DESC, company_name LIMIT 1000"
    ELSE " ORDER BY company_name LIMIT 1000"

\* conditions of the blocks that ran, in order
RECURSIVE Flatten(_)
Flatten(blocks) ==
    IF Len(blocks) = 0 THEN <<>> ELSE Head(blocks).conditions \o Flatten(Tail(blocks))

build_company_search_query(search_request) ==
    LET blocks == filter_blocks(search_request)
        failed == {i \in 1..Len(blocks) : IsSome(blocks[i].error)}
    IN  IF failed # {}
        THEN \* the first block that fails returns; no later block runs
             LET first == CHOOSE i \in failed : \A j \in failed : i <= j
             IN  invalid_params(Unwrap(blocks[first].error))
        ELSE LET conditions == Flatten(blocks) IN
             Ok("SELECT * FROM hello_nest WHERE 1=1"
                    \o (IF Len(conditions) # 0
                        THEN " AND " \o Join(conditions, " AND ")
                        ELSE "")
                    \o order_by_clause(search_request))

(***************************************************************************)
(* The requests explored.                                                  *)
(***************************************************************************)
\* characters of the explored texts: a letter, white space and the three
\* characters the injection test looks for
Alphabet == {"a", " ", "'", ";", "-"}

RECURSIVE TextsUpTo(_)
TextsUpTo(n) ==
    IF n = 0 THEN {""}
    ELSE LET shorter == TextsUpTo(n - 1) IN
         shorter \cup {s \o c : s \in shorter, c \in Alphabet}

Texts == TextsUpTo(MaxTextLen)

\* entries of the explored category lists
CategoryEntries == {"", " ", "a", " b ", "a'", ";", "--", "a-b"}

RECURSIVE ListsUpTo(_, _)
ListsUpTo(S, n) ==
    IF n = 0 THEN {<<>>}
    ELSE LET shorter == ListsUpTo(S, n - 1) IN
         shorter \cup {Append(l, e) : l \in shorter, e \in S}

YearValues ==
    ((MinYear - YearSlack)..(MinYear + YearSlack))
        \cup ((MaxYear - YearSlack)..(MaxYear + YearSlack))

F64Values == {F64(neg, halves) : neg \in BOOLEAN, halves \in 0..NumHalves}

OptionOf(S) == {None} \cup {Some(v) : v \in S}

\* one absent, one blank, one valid and one invalid value of each filter (a
\* range has no blank value); the valid ones are the values of the unit tests
\* and of the schema examples
Contexts == {"absent", "blank", "valid", "invalid"}

SampleName(c) ==
    CASE c = "absent" -> None
      [] c = "blank" -> Some("  ")
      [] c = "valid" -> Some("Test Company")
      [] c = "invalid" -> Some("'; DROP TABLE hello_nest; --")

SampleYear(c) ==
    CASE c \in {"absent", "blank"} -> None
      [] c = "valid" -> Some(<<2020, 2023>>)
      [] c = "invalid" -> Some(<<2023, 2020>>)

SampleCategories(c) ==
    CASE c = "absent" -> None
      [] c = "blank" -> Some(<<" ", "">>)
      [] c = "valid" -> Some(<<"62010", "62020">>)
      [] c = "invalid" -> Some(<<"'; DELETE FROM hello_nest; --">>)

SamplePurpose(c) ==
    CASE c = "absent" -> None
      [] c = "blank" -> Some(" ")
      [] c = "valid" -> Some("byggverksamhet")
      [] c = "invalid" -> Some("it's")

SampleRevenue(c) ==
    CASE c \in {"absent", "blank"} -> None
      [] c = "valid" -> Some(<<F64(FALSE, 2000000), F64(FALSE, 10000000)>>)
      [] c = "invalid" -> Some(<<F64(TRUE, 2), F64(FALSE, 2)>>)

SampleEmployees(c) ==
    CASE c \in {"absent", "blank"} -> None
      [] c = "valid" -> Some(<<F64(FALSE, 20), F64(FALSE, 200)>>)
      [] c = "invalid" -> Some(<<F64(FALSE, 200), F64(FALSE, 20)>>)

\* every combination of absent / blank / valid / invalid filters
SampleRequests ==
    {SearchRequest(SampleName(c1), SampleYear(c2), SampleCategories(c3),
                   SamplePurpose(c4), SampleRevenue(c5), SampleEmployees(c6)) :
        c1 \in Contexts, c2 \in Contexts, c3 \in Contexts,
        c4 \in Contexts, c5 \in Contexts, c6 \in Contexts}

\* one filter ranging over all its bounded values, the others all absent, all
\* blank, all valid or all invalid
FocusRequests ==
    UNION {
        {SearchRequest(n, SampleYear(c), SampleCategories(c), SamplePurpose(c),
                       SampleRevenue(c), SampleEmployees(c)) :
            n \in OptionOf(Texts)}
        \cup
        {SearchRequest(SampleName(c), y, SampleCategories(c), SamplePurpose(c),
                       SampleRevenue(c), SampleEmployees(c)) :
            y \in OptionOf(YearValues \X YearValues)}
        \cup
        {SearchRequest(SampleName(c), SampleYear(c), l, SamplePurpose(c),
                       SampleRevenue(c), SampleEmployees(c)) :
            l \in OptionOf(ListsUpTo(CategoryEntries, MaxCats))}
        \cup
        {SearchRequest(SampleName(c), SampleYear(c), SampleCategories(c), p,
                       SampleRevenue(c), SampleEmployees(c)) :
            p \in OptionOf(Texts)}
        \cup
        {SearchRequest(SampleName(c), SampleYear(c), SampleCategories(c),
                       SamplePurpose(c), r, SampleEmployees(c)) :
            r \in OptionOf(F64Values \X F64Values)}
        \cup
        {SearchRequest(SampleName(c), SampleYear(c), SampleCategories(c),
                       SamplePurpose(c), SampleRevenue(c), e) :
            e \in OptionOf(F64Values \X F64Values)}
        : c \in Contexts}

Requests == SampleRequests \cup FocusRequests

(***************************************************************************)
(* The state machine: a request is received, then compiled.                *)
(***************************************************************************)
NoResult == [kind |-> "none", sql |-> "", message |-> ""]

Init ==
    /\ request \in Requests
    /\ result = NoResult
    /\ pc = "received"
    /\ NoRow /\ NoCalls /\ NoHttp /\ NoDatabase

\* the call build_company_search_query(&search_request) of company_search
Compile ==
    /\ pc = "received"
    /\ result' = build_company_search_query(request)
    /\ pc' = "compiled"
    /\ UNCHANGED <<request, company, selected, calls, connections,
                   http_request, response, database>>

Next == Compile

Spec == Init /\ [][Next]_vars

(***************************************************************************)
(* Reading a request and a compiled query, for the properties below.  None *)
(* of this is used by the compiler above.                                  *)
(***************************************************************************)
Compiled == pc = "compiled"
Accepted == Compiled /\ result.kind = "Ok"
Rejected == Compiled /\ result.kind = "invalid_params"

\* the positions at which pat occurs in s
Positions(s, pat) ==
    {i \in 1..(Len(s) - Len(pat) + 1) : SubSeq(s, i, i + Len(pat) - 1) = pat}
Count(s, pat) == Cardinality(Positions(s, pat))
StartsWith(s, pat) == Len(pat) <= Len(s) /\ SubSeq(s, 1, Len(pat)) = pat
EndsWith(s, pat) ==
    Len(pat) <= Len(s) /\ SubSeq(s, Len(s) - Len(pat) + 1, Len(s)) = pat
\* s from position i to its end
From(s, i) == SubSeq(s, i, Len(s))
\* the number of parentheses open at position i of s
Depth(s, i) ==
    Cardinality({j \in 1..(i - 1) : CharAt(s, j) = "("})
        - Cardinality({j \in 1..(i - 1) : CharAt(s, j) = ")"})

SetMin(S) == CHOOSE x \in S : \A y \in S : x <= y
SetMax(S) == CHOOSE x \in S : \A y \in S : x >= y

\* a text with nothing but white space in it
Blank(s) == \A i \in 1..Len(s) : IsWhitespace(CharAt(s, i))
\* a text without its leading and trailing white space
Stripped(s) ==
    LET solid == {i \in 1..Len(s) : ~IsWhitespace(CharAt(s, i))} IN
    IF solid = {} THEN "" ELSE SubSeq(s, SetMin(solid), SetMax(solid))
\* a text with a single quote, a semicolon or the comment marker -- in it
Unsafe(s) ==
    \/ \E i \in 1..Len(s) : CharAt(s, i) \in {"'", ";"}
    \/ \E i \in 1..(Len(s) - 1) : CharAt(s, i) = "-" /\ CharAt(s, i + 1) = "-"

\* a filter is supplied when it is present and not skipped
NameSupplied(r) == r.company_name # None /\ ~Blank(r.company_name[1])
YearSupplied(r) == r.foundation_year # None
CategoriesSupplied(r) ==
    /\ r.nace_categories # None
    /\ \E i \in 1..Len(r.nace_categories[1]) : ~Blank(r.nace_categories[1][i])
PurposeSupplied(r) == r.company_purpose # None /\ ~Blank(r.company_purpose[1])
RevenueSupplied(r) == r.revenue_range # None
EmployeesSupplied(r) == r.employee_range # None
Supplied(r) ==
    << NameSupplied(r), YearSupplied(r), CategoriesSupplied(r),
       PurposeSupplied(r), RevenueSupplied(r), EmployeesSupplied(r) >>
NoFilterSupplied(r) == \A f \in 1..6 : ~Supplied(r)[f]

(***************************************************************************)
(* C1                                                                      *)
(***************************************************************************)
UnconstrainedQuery == "SELECT * FROM hello_nest WHERE 1=1 ORDER BY company_name LIMIT 1000"

\* C1: a request in which every filter is absent or skipped (blank name,
\* blank purpose, empty or all-blank category list, no range) is compiled,
\* never rejected, and the query is exactly the unconstrained one, with no
\* " AND " anywhere in it.
C1_EmptyRequestCompiles ==
    (Compiled /\ NoFilterSupplied(request)) =>
        /\ result.kind = "Ok"
        /\ result.sql = UnconstrainedQuery
        /\ ~Contains(result.sql, " AND ")

\* a compiled request whose name, categories and purpose are present but blank
C1_Witness ==
    /\ Compiled
    /\ NoFilterSupplied(request)
    /\ request.company_name # None
    /\ request.nace_categories # None /\ Len(request.nace_categories[1]) = 2
    /\ request.company_purpose # None

(***************************************************************************)
(* C2                                                                      *)
(***************************************************************************)
\* the text that opens the condition of each filter, in the fixed order name,
\* foundation year, categories, purpose, revenue, employees
Lead ==
    << " AND company_name ILIKE '%",
       " AND foundation_year BETWEEN ",
       " AND ('",
       " AND fts_main_hello_nest.match_bm25(company_id, '",
       " AND EXISTS (SELECT 1 FROM (VALUES\n                (financial_data['2016']['Sales revenues'])",
       " AND EXISTS (SELECT 1 FROM (VALUES\n                (financial_data['2016']['Employees from accounting'])" >>

\* the WHERE part of a query: from "1=1" up to " ORDER BY "
WherePart(sql) ==
    LET from == SetMin(Positions(sql, " WHERE ")) + 7
        upto == SetMin(Positions(sql, " ORDER BY ")) - 1
    IN  SubSeq(sql, from, upto)

\* the occurrences of a connective outside every parenthesis
TopLevel(s, connective) == {i \in Positions(s, connective) : Depth(s, i) = 0}

\* C2: in every compiled query the WHERE part is 1=1 followed by exactly one
\* condition per supplied filter and none for the others, each introduced by
\* " AND ", in the order name, foundation year, categories, purpose, revenue,
\* employees; outside parentheses there is no OR and no AND but those that
\* introduce the conditions and the one inside the year's BETWEEN.
C2_ConditionsJoinedByAnd ==
    Accepted =>
        LET where == WherePart(result.sql)
            supplied == {f \in 1..6 : Supplied(request)[f]}
            at(f) == SetMin(Positions(where, Lead[f]))
        IN  /\ StartsWith(result.sql, "SELECT * FROM hello_nest WHERE 1=1")
            /\ Count(result.sql, " ORDER BY ") = 1
            /\ where = "1=1" \/ StartsWith(where, "1=1 AND ")
            /\ \A f \in 1..6 : Count(where, Lead[f]) = (IF f \in supplied THEN 1 ELSE 0)
            /\ \A f, g \in supplied : f < g => at(f) < at(g)
            /\ \A f \in supplied : Depth(where, at(f)) = 0
            /\ Cardinality(TopLevel(where, " AND "))
                   = Cardinality(supplied) + (IF 2 \in supplied THEN 1 ELSE 0)
            /\ TopLevel(where, " OR ") = {}

\* a compiled query with all six filters supplied
C2_Witness ==
    /\ Accepted
    /\ \A f \in 1..6 : Supplied(request)[f]

(***************************************************************************)
(* Which filters of a request are invalid, read from the request alone.    *)
(***************************************************************************)
NameMessage == "Invalid characters in company name"
YearOrderMessage == "Minimum year cannot be greater than maximum year"
YearBoundsMessage == "Years must be between 1800 and 2024"
CategoriesMessage == "Invalid characters in NACE categories"
PurposeMessage == "Invalid characters in company purpose"
RevenueOrderMessage == "Minimum revenue cannot be greater than maximum revenue"
RevenueBoundsMessage == "Revenue values must be non-negative"
EmployeesOrderMessage ==
    "Minimum employee count cannot be greater than maximum employee count"
EmployeesBoundsMessage == "Employee count values must be non-negative"

NameUnsafe(r) == r.company_name # None /\ Unsafe(r.company_name[1])
CategoriesUnsafe(r) ==
    /\ r.nace_categories # None
    /\ \E i \in 1..Len(r.nace_categories[1]) : Unsafe(r.nace_categories[1][i])
PurposeUnsafe(r) == r.company_purpose # None /\ Unsafe(r.company_purpose[1])

YearRangeValid(low, high) == low <= high /\ 1800 <= low /\ high <= 2024
YearInvalid(r) ==
    /\ r.foundation_year # None
    /\ ~YearRangeValid(r.foundation_year[1][1], r.foundation_year[1][2])

\* the value of a revenue or employee bound, in halves
Halves(x) == IF x.neg THEN 0 - x.halves ELSE x.halves
NumericRangeValid(low, high) ==
    Halves(low) <= Halves(high) /\ Halves(low) >= 0 /\ Halves(high) >= 0
RevenueInvalid(r) ==
    /\ r.revenue_range # None
    /\ ~NumericRangeValid(r.revenue_range[1][1], r.revenue_range[1][2])
EmployeesInvalid(r) ==
    /\ r.employee_range # None
    /\ ~NumericRangeValid(r.employee_range[1][1], r.employee_range[1][2])

Invalid(r) ==
    << NameUnsafe(r), YearInvalid(r), CategoriesUnsafe(r),
       PurposeUnsafe(r), RevenueInvalid(r), EmployeesInvalid(r) >>

\* the message of the foundation-year block for an invalid range
YearMessage(r) ==
    IF r.foundation_year[1][1] > r.foundation_year[1][2]
    THEN YearOrderMessage ELSE YearBoundsMessage

(***************************************************************************)
(* C3                                                                      *)
(***************************************************************************)
\* C3 as stated: a request whose company name or any category entry holds a
\* single quote, a semicolon or a comment marker fails with the
\* unsafe-character error of that text field, whatever the other filters
\* hold.
C3_UnsafeTextReportedWhateverElse ==
    Compiled =>
        /\ NameUnsafe(request) =>
               result.kind = "invalid_params" /\ result.message = NameMessage
        /\ (CategoriesUnsafe(request) /\ ~NameUnsafe(request)) =>
               result.kind = "invalid_params" /\ result.message = CategoriesMessage

\* C3 as amended: an unsafe company name always fails with the company-name
\* error.  An unsafe category entry always fails too and produces no query;
\* the error is the NACE-categories error unless the name or the
\* foundation-year range is invalid, in which case it is the error of that
\* earlier filter.
C3_UnsafeTextRejected ==
    Compiled =>
        /\ NameUnsafe(request) =>
               /\ result.kind = "invalid_params"
               /\ result.sql = ""
               /\ result.message = NameMessage
        /\ CategoriesUnsafe(request) =>
               /\ result.kind = "invalid_params"
               /\ result.sql = ""
               /\ result.message =
                      (IF NameUnsafe(request) THEN NameMessage
                       ELSE IF YearInvalid(request) THEN YearMessage(request)
                       ELSE CategoriesMessage)

\* an unsafe category entry reported although later filters are invalid too
C3_Witness ==
    /\ Compiled
    /\ CategoriesUnsafe(request)
    /\ PurposeUnsafe(request) /\ RevenueInvalid(request)
    /\ result.message = CategoriesMessage

(***************************************************************************)
(* C4                                                                      *)
(***************************************************************************)
\* C4: the purpose text is not blacklist-checked: every purpose text that is
\* non-blank after trimming is accepted, also one with a single quote, a
\* semicolon or a comment marker in it (no other filter being invalid).
C4_PurposeNeverRejected ==
    (/\ Compiled
     /\ PurposeSupplied(request)
     /\ \A f \in {1, 2, 3, 5, 6} : ~Invalid(request)[f])
        => result.kind = "Ok"

(***************************************************************************)
(* C5                                                                      *)
(***************************************************************************)
MatchCall == "fts_main_hello_nest.match_bm25(company_id, '"

\* C5: for every accepted purpose text, the two places where the compiler
\* puts it into the query, the match_bm25 predicate of the WHERE part and
\* the match_bm25 call of ORDER BY, hold the trimmed text with every single
\* quote doubled, and there is no third place.
C5_PurposeEscapedEverywhere ==
    (Accepted /\ PurposeSupplied(request)) =>
        LET argument == EscapeQuotes(Stripped(request.company_purpose[1])) IN
        /\ Count(result.sql, "match_bm25(") = 2
        /\ Count(WherePart(result.sql),
                 " AND " \o MatchCall \o argument \o "') IS NOT NULL") = 1
        /\ EndsWith(result.sql,
                    " ORDER BY " \o MatchCall \o argument
                        \o "') DESC, company_name LIMIT 1000")

\* an accepted purpose text that trimming changes
C5_Witness ==
    /\ Accepted
    /\ PurposeSupplied(request)
    /\ Stripped(request.company_purpose[1]) # request.company_purpose[1]

(***************************************************************************)
(* C6                                                                      *)
(***************************************************************************)
\* C6: the tail of every compiled query is chosen by the purpose filter
\* alone.  If the purpose text is present and non-blank the query ends with
\* ORDER BY fts_main_hello_nest.match_bm25(company_id, '<purpose>') DESC,
\* company_name LIMIT 1000; otherwise it ends with ORDER BY company_name
\* LIMIT 1000 and has no match_bm25 in it.  ORDER BY and LIMIT 1000 each
\* appear exactly once, LIMIT 1000 last.
C6_TailChosenByPurpose ==
    Accepted =>
        /\ Count(result.sql, " ORDER BY ") = 1
        /\ Count(result.sql, "LIMIT 1000") = 1
        /\ EndsWith(result.sql, " LIMIT 1000")
        /\ IF PurposeSupplied(request)
           THEN /\ EndsWith(result.sql,
                            " ORDER BY " \o MatchCall
                                \o Stripped(request.company_purpose[1])
                                \o "') DESC, company_name LIMIT 1000")
                /\ ~EndsWith(result.sql, " ORDER BY company_name LIMIT 1000")
           ELSE /\ EndsWith(result.sql, " ORDER BY company_name LIMIT 1000")
                /\ ~Contains(result.sql, "match_bm25")

\* both tails are produced: here the ranked one, with other filters supplied
C6_Witness ==
    /\ Accepted
    /\ PurposeSupplied(request)
    /\ NameSupplied(request) /\ EmployeesSupplied(request)
    /\ EndsWith(result.sql, "') DESC, company_name LIMIT 1000")

(***************************************************************************)
(* Reading numbers back from a query.                                      *)
(***************************************************************************)
IsDigit(c) == c \in {"0", "1", "2", "3", "4", "5", "6", "7", "8", "9"}
DigitValue(c) == SetMin(Positions("0123456789", c)) - 1

\* the decimal digits of s from position i on: their value and the position
\* after them
RECURSIVE ReadDigits(_, _, _)
ReadDigits(s, i, value) ==
    IF i <= Len(s) /\ IsDigit(CharAt(s, i))
    THEN ReadDigits(s, i + 1, 10 * value + DigitValue(CharAt(s, i)))
    ELSE [value |-> value, next |-> i]

\* an integer written at position i of s
ReadInteger(s, i) ==
    IF CharAt(s, i) = "-"
    THEN LET d == ReadDigits(s, i + 1, 0) IN [value |-> 0 - d.value, next |-> d.next]
    ELSE ReadDigits(s, i, 0)

\* a number with at most the fraction .5 written at position i of s, as
\* sign and halves
ReadNumber(s, i) ==
    LET neg == CharAt(s, i) = "-"
        d == ReadDigits(s, IF neg THEN i + 1 ELSE i, 0)
        half == d.next + 1 <= Len(s) /\ SubSeq(s, d.next, d.next + 1) = ".5"
    IN  [value |-> [neg |-> neg, halves |-> 2 * d.value + (IF half THEN 1 ELSE 0)],
         next |-> IF half THEN d.next + 2 ELSE d.next]

\* the two bounds written after the only occurrence of lead in s, as
\* "<low> AND <high>", and the text that follows them
BoundsAfter(s, lead, Read(_, _)) ==
    LET start == SetMin(Positions(s, lead)) + Len(lead)
        low == Read(s, start)
        high == Read(s, low.next + 5)
    IN  [low |-> low.value, high |-> high.value,
         and |-> SubSeq(s, low.next, low.next + 4),
         rest |-> From(s, high.next)]

(***************************************************************************)
(* C7                                                                      *)
(***************************************************************************)
\* C7: a foundation-year range (low, high) is accepted if and only if
\* low <= high, 1800 <= low and high <= 2024.  Every other pair yields a
\* validation error and no query, the error being one of the two
\* foundation-year errors when the name is not rejected first.  An accepted
\* pair never yields a foundation-year error, compiles when no other filter
\* is invalid, and emits foundation_year BETWEEN low AND high with both
\* bounds unchanged.
C7_YearRangeAcceptance ==
    (Compiled /\ request.foundation_year # None) =>
        LET low == request.foundation_year[1][1]
            high == request.foundation_year[1][2]
            yearErrors == {YearOrderMessage, YearBoundsMessage}
        IN  IF YearRangeValid(low, high)
            THEN /\ result.message \notin yearErrors
                 /\ (\A f \in {1, 3, 4, 5, 6} : ~Invalid(request)[f]) => Accepted
                 /\ Accepted =>
                        LET where == WherePart(result.sql)
                            lead == " AND foundation_year BETWEEN "
                            written == BoundsAfter(where, lead, ReadInteger)
                        IN  /\ Count(where, lead) = 1
                            /\ written.low = low
                            /\ written.and = " AND "
                            /\ written.high = high
                            /\ written.rest = "" \/ StartsWith(written.rest, " AND ")
            ELSE /\ result.kind = "invalid_params"
                 /\ result.sql = ""
                 /\ ~NameUnsafe(request) => result.message \in yearErrors

\* the widest accepted range, compiled
C7_Witness ==
    /\ Accepted
    /\ request.foundation_year = Some(<<1800, 2024>>)

(***************************************************************************)
(* C8                                                                      *)
(***************************************************************************)
\* the acceptance rule of C8 applied to one numeric filter: range is the
\* filter's value, earlier the filters checked before it, others all the
\* other filters, errors the filter's two messages
NumericRangeRule(range, earlier, others, errors) ==
    range # None =>
        IF NumericRangeValid(range[1][1], range[1][2])
        THEN /\ result.message \notin errors
             /\ (\A f \in others : ~Invalid(request)[f]) => Accepted
        ELSE /\ result.kind = "invalid_params"
             /\ result.sql = ""
             /\ (\A f \in earlier : ~Invalid(request)[f]) => result.message \in errors

\* C8: a revenue range or employee range (low, high) is accepted if and only
\* if low <= high, low >= 0 and high >= 0: such a pair never yields an error
\* of its filter and compiles when no other filter is invalid; every other
\* pair yields a validation error and no query, an error of its own filter
\* when no earlier filter is invalid.  Both filters follow this one rule.
C8_NumericRangeAcceptance ==
    Compiled =>
        /\ NumericRangeRule(request.revenue_range, 1..4, {1, 2, 3, 4, 6},
                            {RevenueOrderMessage, RevenueBoundsMessage})
        /\ NumericRangeRule(request.employee_range, 1..5, 1..5,
                            {EmployeesOrderMessage, EmployeesBoundsMessage})

\* an employee range with low > high, both non-negative, rejected by the
\* employee block
C8_Witness ==
    /\ Rejected
    /\ request.employee_range # None
    /\ Halves(request.employee_range[1][1]) > Halves(request.employee_range[1][2])
    /\ Halves(request.employee_range[1][2]) >= 0
    /\ result.message = EmployeesOrderMessage

(***************************************************************************)
(* C9                                                                      *)
(***************************************************************************)
\* a range with low = high, and a request with no invalid filter but
\* possibly filter f
EqualYear(r) ==
    r.foundation_year # None /\ r.foundation_year[1][1] = r.foundation_year[1][2]
EqualNumeric(range) == range # None /\ Halves(range[1][1]) = Halves(range[1][2])
OthersValid(r, f) == \A g \in (1..6) \ {f} : ~Invalid(r)[g]

\* C9 as stated: for each of the three range filters a request whose range
\* has low = high compiles, for every value of the bound (no other filter
\* being invalid).
C9_EqualBoundsAlwaysCompile ==
    Compiled =>
        /\ (EqualYear(request) /\ OthersValid(request, 2)) => result.kind = "Ok"
        /\ (EqualNumeric(request.revenue_range) /\ OthersValid(request, 5))
               => result.kind = "Ok"
        /\ (EqualNumeric(request.employee_range) /\ OthersValid(request, 6))
               => result.kind = "Ok"

\* what C9 as amended says of one numeric filter
EqualNumericRule(range, f, lead, boundsMessage) ==
    (EqualNumeric(range) /\ OthersValid(request, f)) =>
        IF Halves(range[1][1]) >= 0
        THEN /\ result.kind = "Ok"
             /\ LET written == BoundsAfter(result.sql, lead, ReadNumber) IN
                /\ written.low = range[1][1]
                /\ written.high = range[1][2]
                /\ Halves(written.low) = Halves(written.high)
        ELSE /\ result.kind = "invalid_params"
             /\ result.message = boundsMessage

\* C9 as amended: for each of the three range filters a request whose range
\* has low = high (no other filter being invalid) compiles if and only if
\* the bound lies in the filter's domain, 1800..2024 for the foundation year
\* and >= 0 for revenue and employees, and then the BETWEEN test has that
\* bound on both sides; outside the domain the request is rejected with the
\* filter's out-of-range error.
C9_EqualBoundsCompileInDomain ==
    Compiled =>
        /\ (EqualYear(request) /\ OthersValid(request, 2)) =>
               LET year == request.foundation_year[1][1] IN
               IF 1800 <= year /\ year <= 2024
               THEN /\ result.kind = "Ok"
                    /\ LET written ==
                               BoundsAfter(result.sql, " AND foundation_year BETWEEN ",
                                           ReadInteger)
                       IN  written.low = year /\ written.high = year
               ELSE /\ result.kind = "invalid_params"
                    /\ result.message = YearBoundsMessage
        /\ EqualNumericRule(request.revenue_range, 5,
                            " AND revenue BETWEEN ", RevenueBoundsMessage)
        /\ EqualNumericRule(request.employee_range, 6,
                            " AND employees BETWEEN ", EmployeesBoundsMessage)

\* equal bounds outside the domain, rejected: a year below 1800
C9_Witness ==
    /\ Rejected
    /\ EqualYear(request)
    /\ request.foundation_year[1][1] < 1800
    /\ OthersValid(request, 2)
    /\ result.message = YearBoundsMessage

(***************************************************************************)
(* C10                                                                     *)
(***************************************************************************)
YearLabels == <<"2016", "2017", "2018", "2019", "2020", "2021", "2022", "2023", "2024">>

\* the i-th smallest element of a set of numbers
Nth(S, i) == CHOOSE x \in S : Cardinality({y \in S : y < x}) = i - 1

\* the metric paths financial_data['<year>']['<metric>'] of a text, in the
\* order in which they are written
MetricPaths(s) ==
    LET opens == Positions(s, "financial_data['")
        path(p) ==
            LET rest == From(s, p + 16)
                metric == From(rest, 9)
            IN  [year |-> SubSeq(rest, 1, 4),
                 between |-> SubSeq(rest, 5, 8),
                 metric |-> SubSeq(metric, 1, SetMin(Positions(metric, "'")) - 1)]
    IN  [i \in 1..Cardinality(opens) |-> path(Nth(opens, i))]

\* the existence check of one numeric filter: the text from its opening
\* EXISTS to the parenthesis that closes it
ExistenceCheck(sql, alias) ==
    LET closing == SetMin(Positions(sql, alias))
        opening == SetMax({i \in Positions(sql, "EXISTS (") : i < closing})
        end == SetMin({i \in Positions(sql, ")") : i > closing + Len(alias)})
    IN  SubSeq(sql, opening, end)

\* what C10 says of one numeric filter
ExistenceCheckRule(range, alias, metric, lead) ==
    IF range # None
    THEN LET check == ExistenceCheck(result.sql, alias)
             paths == MetricPaths(check)
             written == BoundsAfter(check, lead, ReadNumber)
         IN  /\ Count(result.sql, alias) = 1
             /\ Len(paths) = 9
             /\ \A i \in 1..9 :
                    /\ paths[i].year = YearLabels[i]
                    /\ paths[i].between = "']['"
                    /\ paths[i].metric = metric
             /\ Count(check, " BETWEEN ") = 1
             /\ written.low = range[1][1]
             /\ written.and = " AND "
             /\ written.high = range[1][2]
             /\ written.rest = ")"
    ELSE Count(result.sql, alias) = 0

\* C10: in every compiled query the existence check of an accepted revenue
\* range and that of an accepted employee range reference the metric path of
\* exactly the nine year labels 2016, 2017, ..., 2024, each once and in
\* ascending order, 'Sales revenues' for revenue and 'Employees from
\* accounting' for employees, the same year list for both; the two bounds of
\* the request are the bounds of the BETWEEN test; and the query has no
\* other metric path.
C10_NineYearLabels ==
    Accepted =>
        /\ ExistenceCheckRule(request.revenue_range, ") AS revenue_data(revenue)",
                              "Sales revenues", " AND revenue BETWEEN ")
        /\ ExistenceCheckRule(request.employee_range, ") AS employee_data(employees)",
                              "Employees from accounting", " AND employees BETWEEN ")
        /\ Count(result.sql, "financial_data[")
               = 9 * Cardinality({f \in {5, 6} : Supplied(request)[f]})

\* a compiled query with a revenue range and an employee range
C10_Witness ==
    /\ Accepted
    /\ request.revenue_range # None
    /\ request.employee_range # None


(***************************************************************************)
(* C11                                                                     *)
(***************************************************************************)
MembershipTail == "' = ANY(nace_categories)"

\* the quoted literals of the membership tests of a query, left to right
CategoryLiterals(sql) ==
    LET tests == Positions(sql, MembershipTail)
        open(p) == SetMax({q \in 1..(p - 1) : CharAt(sql, q) = "'"})
    IN  [k \in 1..Cardinality(tests) |->
            SubSeq(sql, open(Nth(tests, k)) + 1, Nth(tests, k) - 1)]

\* the entries of a category list that are not blank, trimmed, in input order
SolidEntries(list) ==
    LET solid == {i \in 1..Len(list) : ~Blank(list[i])} IN
    [k \in 1..Cardinality(solid) |-> Stripped(list[Nth(solid, k)])]

\* the text of a query from the first membership test to the last, with the
\* parentheses around them
CategoryGroup(sql) ==
    LET tests == Positions(sql, MembershipTail)
        first == SetMin(tests) - Len(CategoryLiterals(sql)[1]) - 2
        last == SetMax(tests) + Len(MembershipTail)
    IN  SubSeq(sql, first, last)

\* "(" test " OR " test ... ")" over the given literals, written out
RECURSIVE OrJoined(_)
OrJoined(lits) ==
    IF Len(lits) = 1 THEN "'" \o lits[1] \o MembershipTail
    ELSE "'" \o lits[1] \o MembershipTail \o " OR " \o OrJoined(Tail(lits))

\* C11: for an accepted category list the query holds one parenthesised
\* group, introduced by " AND " at the top level of the WHERE part, made of
\* one test '<entry>' = ANY(nace_categories) per entry that is not blank,
\* with the trimmed entry, in input order, joined by " OR "; blank entries
\* give no test; an empty or all-blank list gives no test at all and is not
\* the reason of a rejection.
C11_CategoryGroup ==
    LET list == IF request.nace_categories = None THEN << >>
                ELSE request.nace_categories[1]
    IN  /\ Accepted =>
            /\ CategoryLiterals(result.sql) = SolidEntries(list)
            /\ SolidEntries(list) # << >> =>
                 LET group == CategoryGroup(result.sql)
                     at == SetMin(Positions(WherePart(result.sql), group))
                 IN  /\ group = "(" \o OrJoined(SolidEntries(list)) \o ")"
                     /\ Count(result.sql, group) = 1
                     /\ Depth(WherePart(result.sql), at) = 0
                     /\ SubSeq(WherePart(result.sql), at - 5, at - 1) = " AND "
            /\ SolidEntries(list) = << >> =>
                 Count(result.sql, "nace_categories") = 0
        /\ Rejected /\ ~CategoriesUnsafe(request) =>
            result.message # CategoriesMessage
        /\ Compiled /\ SolidEntries(list) = << >>
                    /\ OthersValid(request, 3) /\ ~CategoriesUnsafe(request)
             => Accepted

\* an accepted list with a blank entry and an entry to be trimmed, and an
\* accepted list of two entries
C11_Witness ==
    /\ Accepted
    /\ request.nace_categories \in {Some(<<" ", " b ">>), Some(<<"a", " b ">>)}
    /\ Count(result.sql, MembershipTail) >= 1


(***************************************************************************)
(* The category filter against a row of hello_nest.                        *)
(*                                                                         *)
(* The compiler writes '<entry>' = ANY(nace_categories) for each entry     *)
(* (tool.rs 456-458); in SQL x = ANY(list) holds when some element of the  *)
(* list equals x.  A row is kept by a query whose only conditions are      *)
(* membership tests when one of the tests holds.                           *)
(***************************************************************************)
\* the labels a row may carry and the entries a request may name: two labels
\* of the schema example (tool.rs 34) and the code of the integration test
\* (tool.rs 801)
CategoryLabels ==
    {"43320 Byggnadssnickeriarbeten", "78200 Personaluthyrning", "43"}
SearchedCategories ==
    {"43", "43320 Byggnadssnickeriarbeten", " 78200 Personaluthyrning ", ""}

CategoryRequests ==
    {SearchRequest(None, None, l, None, None, None) :
        l \in OptionOf(ListsUpTo(SearchedCategories, MaxCats))}

\* '<literal>' = ANY(nace_categories), OR-joined, evaluated on the labels of
\* a row; a query without membership tests keeps every row
any_nace_categories(sql, labels) ==
    LET literals == CategoryLiterals(sql) IN
    \/ Len(literals) = 0
    \/ \E k \in 1..Len(literals) : literals[k] \in labels

InitCategory ==
    /\ request \in CategoryRequests
    /\ result = NoResult
    /\ pc = "received"
    /\ company \in SUBSET CategoryLabels
    /\ selected = FALSE
    /\ NoCalls /\ NoHttp /\ NoDatabase

\* the engine evaluates the compiled query on the row
Evaluate ==
    /\ pc = "compiled"
    /\ result.kind = "Ok"
    /\ selected' = any_nace_categories(result.sql, company)
    /\ pc' = "evaluated"
    /\ UNCHANGED <<request, result, company, calls, connections,
                   http_request, response, database>>

NextCategory == Compile \/ Evaluate

SpecCategory == InitCategory /\ [][NextCategory]_vars

(***************************************************************************)
(* C12                                                                     *)
(***************************************************************************)
\* C12: partial matching: once the query of a category request has been
\* evaluated on a row, the row is kept whenever one of its labels contains
\* one of the non-blank entries of the request as a substring.
C12_PartialMatching ==
    pc = "evaluated" /\ request.nace_categories # None =>
        LET entries == SolidEntries(request.nace_categories[1]) IN
        (\E k \in 1..Len(entries) : \E label \in company :
            Contains(label, entries[k]))
          => selected


(***************************************************************************)
(* Tool invocations (tool.rs, Tool::company and Tool::company_search) and  *)
(* the connections they open (duckdb.rs, DuckDB::new, query_all_json).     *)
(*                                                                         *)
(* Invocations arrive at any time and run concurrently; each one is a      *)
(* record of calls, each connection a record of connections.  Whether the  *)
(* engine opens, configures and answers is outside the program: every step *)
(* on the engine may succeed or fail.                                      *)
(***************************************************************************)
MaxCalls == 2

\* anyhow::Error: the chain of messages, outermost context first
EngineError(message) == << message >>
\* .context(..) / .with_context(..)
WithContext(e, context) == << context >> \o e
\* "{}" of an anyhow::Error prints the outermost message only
Display(e) == e[1]
\* the message the engine gave, at the root of the chain
RootCause(e) == e[Len(e)]

\* new_default without its access mode: the Automatic mode of the default
\* configuration
new_default_access_mode_automatic == "Automatic"

\* the access mode DuckDB::new_default asks for
new_default_access_mode == "ReadOnly"

\* the database: whether the file nest_mcp.db exists, whether the parquet
\* file can be read, the rows of hello_nest when the table exists, and the
\* value of a sequence
Database(file, parquet, hello_nest, company_seq) ==
    [file |-> file, parquet |-> parquet, hello_nest |-> hello_nest,
     company_seq |-> company_seq]

\* the company_id values of the rows in play
Companies == {"5560000001", "5560000002", "5560000003"}
\* the rows CREATE TABLE .. AS SELECT .. FROM 'hello_nest.parquet' gives
ParquetRows == {"5560000001", "5560000002"}

\* what the engine says when a statement would write to a database opened
\* read-only, and when a file is missing
ReadOnlyFailure == "Invalid Input Error: Cannot execute statement on database which is attached in read-only mode!"
MissingFileFailure == "IO Error: Cannot open database in read-only mode: database does not exist"
MissingParquetFailure == "IO Error: No files found that match the pattern hello_nest.parquet"

\* Connection::open_with_flags on the database file: a missing file is
\* created unless the access mode is read-only
engine_open(access_mode, db) ==
    IF db.file THEN [ok |-> TRUE, db |-> db, error |-> << >>]
    ELSE IF access_mode = "ReadOnly"
    THEN [ok |-> FALSE, db |-> db, error |-> EngineError(MissingFileFailure)]
    ELSE [ok |-> TRUE, db |-> [db EXCEPT !.file = TRUE], error |-> << >>]

\* DROP TABLE IF EXISTS hello_nest: refused on a read-only database when the
\* table exists; when there is nothing to drop the engine may accept the
\* statement or refuse it as a write
engine_drop_table_if_exists(access_mode, db) ==
    IF access_mode = "ReadOnly"
    THEN { [ok |-> FALSE, db |-> db, error |-> EngineError(ReadOnlyFailure)] }
           \cup (IF db.hello_nest = None
                 THEN { [ok |-> TRUE, db |-> db, error |-> << >>] } ELSE { })
    ELSE { [ok |-> TRUE, db |-> [db EXCEPT !.hello_nest = None],
            error |-> << >>] }

\* CREATE TABLE hello_nest AS SELECT .. FROM 'hello_nest.parquet': refused on
\* a read-only database, failing without the parquet file
engine_create_table(access_mode, db) ==
    IF access_mode = "ReadOnly"
    THEN [ok |-> FALSE, db |-> db, error |-> EngineError(ReadOnlyFailure)]
    ELSE IF ~db.parquet
    THEN [ok |-> FALSE, db |-> db, error |-> EngineError(MissingParquetFailure)]
    ELSE [ok |-> TRUE, db |-> [db EXCEPT !.hello_nest = Some(ParquetRows)],
          error |-> << >>]

\* the database after the engine has run a query: a query calling nextval
\* advances the sequence, unless the database is open read-only; nothing
\* else that parses as the subquery of a SELECT writes
engine_query(access_mode, text, db) ==
    IF access_mode # "ReadOnly" /\ Contains(text, "nextval('company_seq')")
    THEN [db EXCEPT !.company_seq = @ + 1]
    ELSE db

\* what the engine says when it fails
OpenFailure == "IO Error: Cannot open file nest_mcp.db"
PragmaFailure == "Catalog Error: unrecognized configuration parameter"
SecretFailure == "Invalid Input Error: Secret Provider not found"
PrepareFailure == "Catalog Error: Table does not exist!"
QueryRowFailure == "Conversion Error: Could not convert string to INT32"
\* what it answers to json_group_array when it succeeds, and an answer that
\* is not JSON
EngineRows == "[]"
NotJson == "expected value at line 1 column 1"

\* CallToolResult::success(vec![Content::text(result)])
success(text) == [kind |-> "success", message |-> text]
\* McpError::internal_error(message, None)
internal_error(message) == [kind |-> "internal_error", message |-> message]
\* the closures given to map_err
connect_error(e) ==
    internal_error("Failed to connect to database: " \o Display(e))
\* a failed execution answered as an empty result
execute_error_swallowed(e) == success("[]")

execute_error(e) ==
    internal_error("Failed to execute query: " \o Display(e))
\* the ? on the Result of build_company_search_query
validation_error(r) == [kind |-> r.kind, message |-> r.message]

\* str::trim_end_matches([';', '\n'])
RECURSIVE TrimEndMatches(_)
TrimEndMatches(s) ==
    IF s = "" THEN ""
    ELSE IF CharAt(s, Len(s)) \in {";", "\n"}
    THEN TrimEndMatches(SubSeq(s, 1, Len(s) - 1))
    ELSE s

\* the query query_all_json sends to the engine
json_sql(sql) ==
    "SELECT COALESCE(json_group_array(to_json(row_data)), '[]') FROM ("
        \o Trim(TrimEndMatches(sql)) \o ") as row_data"

\* the outcomes of query_all_json on the engine: the rendered rows, or the
\* error of the step that failed
query_all_json(sql) ==
    { [ok |-> TRUE, text |-> EngineRows, error |-> << >>],
      [ok |-> FALSE, text |-> "",
       error |-> WithContext(EngineError(PrepareFailure),
                     "Failed to prepare JSON query: " \o json_sql(sql))],
      [ok |-> FALSE, text |-> "",
       error |-> WithContext(EngineError(QueryRowFailure),
                     "Failed to execute JSON query: " \o json_sql(sql))],
      [ok |-> FALSE, text |-> "",
       error |-> WithContext(EngineError(NotJson),
                     "Failed to parse JSON result")] }

\* the sql texts given to the company tool and the requests given to
\* company_search
QueryRequests ==
    { "SELECT 1 AS test_column;\n", "DROP TABLE hello_nest",
      "SELECT nextval('company_seq')" }
SearchRequests ==
    { SearchRequest(None, None, None, None, None, None),
      SearchRequest(Some("Test Company"), Some(<<2020, 2023>>), None, None,
                    None, None),
      SearchRequest(Some("'; DROP TABLE hello_nest; --"), None, None, None,
                    None, None),
      SearchRequest(None, Some(<<2023, 2020>>), None, None, None, None) }

\* an invocation as it starts: nothing opened, nothing executed, no outcome
NewCall(tool, sql, search_request) ==
    [tool |-> tool, search_request |-> search_request, sql |-> sql,
     pc |-> "connect", db |-> None, outcome |-> None,
     failed |-> "none", error |-> << >>, opened |-> 0, executed |-> 0]

\* a pool: an open connection is handed out again instead of a new one
open_with_flags_pooled(conns, call) ==
    IF \E k \in DOMAIN conns : conns[k].open
    THEN [conns |-> conns,
          db |-> CHOOSE k \in DOMAIN conns : conns[k].open]
    ELSE [conns |-> Append(conns, [owner |-> call, open |-> TRUE, users |-> {},
                                     submitted |-> << >>]),
          db |-> Len(conns) + 1]

\* Connection::open_with_flags: a new connection, owned by the invocation
open_with_flags(conns, call) ==
    [conns |-> Append(conns, [owner |-> call, open |-> TRUE, users |-> {},
                                     submitted |-> << >>]),
     db |-> Len(conns) + 1]
\* the drop of a DuckDB value closes its connection
drop(conns, db) ==
    IF db = None THEN conns
    ELSE [conns EXCEPT ![Unwrap(db)].open = FALSE]

\* the return of an invocation: its outcome is handed to the caller once
\* its locals, db among them, are dropped
Return(cs, conns, call, outcome, failed, error) ==
    /\ calls' = [cs EXCEPT ![call].pc = "returned",
                           ![call].db = None,
                           ![call].outcome = Some(outcome),
                           ![call].failed = failed,
                           ![call].error = error]
    /\ connections' = drop(conns, cs[call].db)

OtherVars == <<request, result, pc, company, selected, http_request, response>>

\* the database the server runs on: the file made by create-db
ServedDatabase == Database(TRUE, TRUE, Some(ParquetRows), 0)

InitTool ==
    /\ request = SearchRequest(None, None, None, None, None, None)
    /\ result = NoResult
    /\ pc = "received"
    /\ NoRow /\ NoCalls /\ NoHttp
    /\ database = ServedDatabase

\* the company tool is invoked with a sql text
InvokeCompany ==
    /\ Len(calls) < MaxCalls
    /\ \E sql \in QueryRequests :
         calls' = Append(calls, NewCall("company", Some(sql), None))
    /\ UNCHANGED <<connections, OtherVars, database>>

\* the company_search tool is invoked with a search request
InvokeSearch ==
    /\ Len(calls) < MaxCalls
    /\ \E search_request \in SearchRequests :
         calls' = Append(calls,
                         NewCall("company_search", None, Some(search_request)))
    /\ UNCHANGED <<connections, OtherVars, database>>

\* DuckDB::new_default, up to Connection::open_with_flags
Open(call) ==
    /\ calls[call].pc = "connect"
    /\ \/ LET opened == open_with_flags(connections, call) IN
          /\ connections' = opened.conns
          /\ calls' = [calls EXCEPT ![call].db = Some(opened.db),
                                    ![call].opened = @ + 1,
                                    ![call].pc = "configure"]
       \/ Return(calls, connections, call,
                 connect_error(EngineError(OpenFailure)),
                 "connection", EngineError(OpenFailure))
    /\ UNCHANGED <<OtherVars, database>>

\* DuckDB::new, from the pragmas to CREATE SECRET
Configure(call) ==
    /\ calls[call].pc = "configure"
    /\ \/ /\ calls' = [calls EXCEPT ![call].pc =
                          IF calls[call].tool = "company" THEN "query"
                          ELSE "build"]
          /\ UNCHANGED connections
       \/ \E e \in { EngineError(PragmaFailure),
                     WithContext(EngineError(SecretFailure),
                                 "Failed to create s3 credentials") } :
            Return(calls, connections, call, connect_error(e), "connection", e)
    /\ UNCHANGED <<OtherVars, database>>

\* the compiler reading the request from a slot shared by the invocations,
\* where the latest invocation has put its own
Build_shared_request(call) ==
    /\ calls[call].pc = "build"
    /\ LET latest == SetMax({c \in DOMAIN calls :
                                 calls[c].tool = "company_search"})
           built == build_company_search_query(
                        Unwrap(calls[latest].search_request))
       IN  IF built.kind = "Ok"
           THEN /\ calls' = [calls EXCEPT ![call].sql = Some(built.sql),
                                          ![call].pc = "query"]
                /\ UNCHANGED connections
           ELSE Return(calls, connections, call, validation_error(built),
                       "validation", << >>)
    /\ UNCHANGED <<OtherVars, database>>

\* let sql = build_company_search_query(&search_request)?
Build(call) ==
    /\ calls[call].pc = "build"
    /\ LET built == build_company_search_query(Unwrap(calls[call].search_request))
       IN  IF built.kind = "Ok"
           THEN /\ calls' = [calls EXCEPT ![call].sql = Some(built.sql),
                                          ![call].pc = "query"]
                /\ UNCHANGED connections
           ELSE Return(calls, connections, call, validation_error(built),
                       "validation", << >>)
    /\ UNCHANGED <<OtherVars, database>>

\* db.query_all_json(&sql), and the return of its result or of its error
Execute(call) ==
    /\ calls[call].pc = "query"
    /\ \E answer \in query_all_json(Unwrap(calls[call].sql)) :
         LET db == Unwrap(calls[call].db)
             executed == [calls EXCEPT ![call].executed = @ + 1]
             submitted == json_sql(Unwrap(calls[call].sql))
             used == [connections EXCEPT
                        ![db].users = @ \cup {call},
                        ![db].submitted = Append(@, submitted)]
         IN  IF answer.ok
             THEN /\ Return(executed, used, call, success(answer.text),
                            "none", << >>)
                  /\ database' = engine_query(new_default_access_mode,
                                              submitted, database)
             ELSE /\ Return(executed, used, call, execute_error(answer.error),
                            "execution", answer.error)
                  /\ UNCHANGED database
    /\ UNCHANGED OtherVars

NextTool ==
    \/ InvokeCompany
    \/ InvokeSearch
    \/ \E call \in DOMAIN calls :
         Open(call) \/ Configure(call) \/ Build(call) \/ Execute(call)

SpecTool == InitTool /\ [][NextTool]_vars


(***************************************************************************)
(* Reading invocations, for the properties below.                          *)
(***************************************************************************)
Returned(call) == calls[call].pc = "returned"
InFlight(call) == calls[call].pc # "returned"
\* a company_search invocation whose request breaks a rule of some filter
InvalidSearch(call) ==
    /\ calls[call].tool = "company_search"
    /\ \E f \in 1..6 : Invalid(Unwrap(calls[call].search_request))[f]

(***************************************************************************)
(* C13                                                                     *)
(***************************************************************************)
\* C13: a company_search invocation with an invalid request never opens a
\* connection to the engine and never executes a query.
C13_ValidationBeforeEngine ==
    \A call \in DOMAIN calls :
        InvalidSearch(call) =>
            calls[call].opened = 0 /\ calls[call].executed = 0

(***************************************************************************)
(* C14                                                                     *)
(***************************************************************************)
\* C14: a company_search invocation with an invalid request, once returned,
\* has returned an invalid-params error, whether the engine opened,
\* failed to open or failed to be configured.
C14_InvalidRequestGivesValidationError ==
    \A call \in DOMAIN calls :
        InvalidSearch(call) /\ Returned(call) =>
            Unwrap(calls[call].outcome).kind = "invalid_params"


(***************************************************************************)
(* C15                                                                     *)
(***************************************************************************)
\* the words by which an error message names a field
FieldWords ==
    << {"company name"}, {"year", "Years"}, {"NACE categories"},
       {"company purpose"}, {"revenue", "Revenue"},
       {"employee count", "Employee count"} >>
NamesField(message, f) == \E w \in FieldWords[f] : Contains(message, w)

\* C15: every validation error names a field that is invalid in the request,
\* and the error of a range check (foundation year, revenue, employees)
\* carries the low and the high value of the rejected range, written out.
C15_ErrorsCarryFieldAndValues ==
    Rejected =>
        /\ \E f \in 1..6 : Invalid(request)[f] /\ NamesField(result.message, f)
        /\ NamesField(result.message, 2) =>
             /\ Contains(result.message, I64ToStr(request.foundation_year[1][1]))
             /\ Contains(result.message, I64ToStr(request.foundation_year[1][2]))
        /\ NamesField(result.message, 5) =>
             /\ Contains(result.message, F64ToStr(request.revenue_range[1][1]))
             /\ Contains(result.message, F64ToStr(request.revenue_range[1][2]))
        /\ NamesField(result.message, 6) =>
             /\ Contains(result.message, F64ToStr(request.employee_range[1][1]))
             /\ Contains(result.message, F64ToStr(request.employee_range[1][2]))

\* the half of C15 that holds: every validation error names, in words, a
\* field that is invalid in the request
ErrorsNameField ==
    Rejected =>
        \E f \in 1..6 : Invalid(request)[f] /\ NamesField(result.message, f)


(***************************************************************************)
(* C16                                                                     *)
(***************************************************************************)
\* an invocation whose query the engine refused to prepare or to run
EngineRefused(call) ==
    /\ Returned(call)
    /\ calls[call].failed = "execution"
    /\ RootCause(calls[call].error) \in {PrepareFailure, QueryRowFailure}

\* C16: an invocation of either tool opens at most one connection and
\* executes its query at most once; when the engine refuses the query the
\* invocation has returned, after that single execution, an internal error
\* whose message holds the message the engine gave.
C16_SingleExecutionEngineMessage ==
    \A call \in DOMAIN calls :
        /\ calls[call].executed <= 1
        /\ calls[call].opened <= 1
        /\ EngineRefused(call) =>
             /\ calls[call].executed = 1
             /\ Unwrap(calls[call].outcome).kind = "internal_error"
             /\ Contains(Unwrap(calls[call].outcome).message,
                         RootCause(calls[call].error))

\* the half of C16 that holds: one connection and one execution at most, and
\* a failed execution is the last step of its invocation
ExecutedAtMostOnce ==
    \A call \in DOMAIN calls :
        /\ calls[call].executed <= 1
        /\ calls[call].opened <= 1
        /\ calls[call].executed = 1 => Returned(call)
        /\ Returned(call) /\ calls[call].failed = "execution" =>
             /\ calls[call].executed = 1
             /\ Unwrap(calls[call].outcome).kind = "internal_error"
             /\ StartsWith(Unwrap(calls[call].outcome).message,
                           "Failed to execute query: ")


(***************************************************************************)
(* C17                                                                     *)
(***************************************************************************)
OpenConnections == {k \in DOMAIN connections : connections[k].open}
CallsInFlight == {call \in DOMAIN calls : InFlight(call)}
\* the connections an invocation opened
OpenedBy(call) == {k \in DOMAIN connections : connections[k].owner = call}

\* C17: every invocation works on a connection it opened itself, and opens
\* one at most; a connection is open only while the invocation that opened
\* it is in flight and holds it, so it is closed once that invocation has
\* returned, whatever the outcome; no two invocations hold the same
\* connection, no connection has executed the query of an invocation other
\* than its owner, and there are never more open connections than
\* invocations in flight.
C17_OwnConnectionReleased ==
    /\ \A call \in DOMAIN calls :
         /\ Cardinality(OpenedBy(call)) = calls[call].opened
         /\ calls[call].opened <= 1
         /\ calls[call].db # None => Unwrap(calls[call].db) \in OpenedBy(call)
         /\ calls[call].executed > 0 =>
              \E k \in OpenedBy(call) : call \in connections[k].users
         /\ Returned(call) => \A k \in OpenedBy(call) : ~connections[k].open
    /\ \A k \in DOMAIN connections :
         /\ connections[k].users \subseteq {connections[k].owner}
         /\ connections[k].open =>
              /\ InFlight(connections[k].owner)
              /\ calls[connections[k].owner].db = Some(k)
    /\ \A c1, c2 \in DOMAIN calls :
         c1 # c2 /\ calls[c1].db # None => calls[c1].db # calls[c2].db
    /\ Cardinality(OpenConnections) <= Cardinality(CallsInFlight)

\* an invocation has returned a validation error and its connection is
\* closed, while another invocation is in flight on an open connection of
\* its own
C17_Witness ==
    \E c1, c2 \in DOMAIN calls :
        /\ Returned(c1)
        /\ Unwrap(calls[c1].outcome).kind = "invalid_params"
        /\ OpenedBy(c1) # {}
        /\ \A k \in OpenedBy(c1) : ~connections[k].open
        /\ InFlight(c2)
        /\ calls[c2].db # None
        /\ connections[Unwrap(calls[c2].db)].open


(***************************************************************************)
(* C18                                                                     *)
(***************************************************************************)
\* the outcome matches the step that failed
OutcomeMatches(call) ==
    LET outcome == Unwrap(calls[call].outcome) IN
    CASE calls[call].failed = "validation" ->
             outcome.kind = "invalid_params"
      [] calls[call].failed = "connection" ->
             /\ outcome.kind = "internal_error"
             /\ StartsWith(outcome.message, "Failed to connect to database: ")
      [] calls[call].failed = "execution" ->
             /\ outcome.kind = "internal_error"
             /\ StartsWith(outcome.message, "Failed to execute query: ")
      [] calls[call].failed = "none" ->
             outcome.kind = "success"

\* the step at which an invocation failed, read from its request and from
\* what the engine answered
FailedStep(call) ==
    IF calls[call].error # << >>
    THEN IF RootCause(calls[call].error)
               \in {OpenFailure, PragmaFailure, SecretFailure}
         THEN "connection" ELSE "execution"
    ELSE IF InvalidSearch(call) THEN "validation" ELSE "none"

\* an invocation is at one of the four steps, with what the step works on
\* in place: a connection to configure, a request to compile on an open
\* connection, a query to execute on an open connection
CanStep(call) ==
    LET held == calls[call].db # None
                    /\ Unwrap(calls[call].db) \in OpenConnections
    IN  \/ calls[call].pc = "connect"
        \/ calls[call].pc = "configure" /\ held
        \/ calls[call].pc = "build" /\ held /\ calls[call].search_request # None
        \/ calls[call].pc = "query" /\ held /\ calls[call].sql # None

\* C18: an invocation has an outcome exactly when it has returned, and the
\* outcome never changes afterwards; the outcome is a success payload when
\* no step failed, invalid-params when validation failed, the internal
\* error "Failed to connect to database" when the connection failed and the
\* internal error "Failed to execute query" when the execution failed; an
\* invocation that has not returned stands at a step it can take.
C18_OneMatchingOutcome ==
    /\ [] \A call \in DOMAIN calls :
            /\ Returned(call) <=> calls[call].outcome # None
            /\ Returned(call) =>
                 /\ calls[call].failed = FailedStep(call)
                 /\ OutcomeMatches(call)
            /\ InFlight(call) => CanStep(call)
    /\ [][\A call \in DOMAIN calls :
            Returned(call) => calls'[call] = calls[call]]_vars

\* one invocation has returned the error of a failed execution and another
\* one a validation error
C18_Witness ==
    \E c1, c2 \in DOMAIN calls :
        /\ Returned(c1)
        /\ calls[c1].failed = "execution"
        /\ Unwrap(calls[c1].outcome).kind = "internal_error"
        /\ Returned(c2)
        /\ calls[c2].failed = "validation"
        /\ Unwrap(calls[c2].outcome).kind = "invalid_params"


(***************************************************************************)
(* The HTTP perimeter (auth.rs, claude_only_middleware; lib.rs, serve).    *)
(***************************************************************************)
Methods == {"GET", "POST", "OPTIONS"}
Paths == {"/sse", "/message", "/.well-known/oauth-protected-resource"}
UserAgents == {"curl/8.0", "Claude-User/1.0"}
Origins == {"https://claude.ai", "https://example.com"}
Referers == {"https://claude.ai/chat", "https://example.com/"}

HttpRequests ==
    [method : Methods, path : Paths, user_agent : OptionOf(UserAgents),
     origin : OptionOf(Origins), referer : OptionOf(Referers)]

\* next.run(req): the request goes on to the routes behind the gate
Forwarded == [status |-> 200, body |-> "", forwarded |-> TRUE]
\* (StatusCode::FORBIDDEN, Json({error, message}))
Forbidden ==
    [status |-> 403,
     body |-> "{\"error\":\"forbidden\",\"message\":\"Only requests from claude.ai are allowed\"}",
     forwarded |-> FALSE]
\* what a router answers to a request no route takes
NotFound == [status |-> 404, body |-> "", forwarded |-> FALSE]
MethodNotAllowed == [status |-> 405, body |-> "", forwarded |-> FALSE]

\* fn is_from_claude(_headers: &HeaderMap) -> bool { true }
is_from_claude(req) == TRUE

claude_only_middleware(req) ==
    IF req.method = "OPTIONS" THEN Forwarded
    ELSE IF StartsWith(req.path, "/.well-known") THEN Forwarded
    ELSE IF is_from_claude(req) THEN Forwarded
    ELSE Forbidden

\* the router serve hands to axum::serve: the two routes of SseServer::new,
\* GET sse_path and POST post_path, with no layer attached to it
serve_router(req) ==
    IF req.path = "/sse"
    THEN IF req.method = "GET" THEN Forwarded ELSE MethodNotAllowed
    ELSE IF req.path = "/message"
    THEN IF req.method = "POST" THEN Forwarded ELSE MethodNotAllowed
    ELSE NotFound

InitHttp ==
    /\ request = SearchRequest(None, None, None, None, None, None)
    /\ result = NoResult
    /\ pc = "received"
    /\ NoRow /\ NoCalls /\ NoDatabase
    /\ http_request \in {Some(req) : req \in HttpRequests}
    /\ response = None

\* the request passes through the middleware of attach_to_router
ClaudeOnlyMiddleware ==
    /\ response = None
    /\ response' = Some([by |-> "claude_only_middleware"]
                          @@ claude_only_middleware(Unwrap(http_request)))
    /\ UNCHANGED <<request, result, pc, company, selected, calls, connections,
                   http_request, database>>

\* the request is answered by the server that serve starts
Serve ==
    /\ response = None
    /\ response' = Some([by |-> "serve"] @@ serve_router(Unwrap(http_request)))
    /\ UNCHANGED <<request, result, pc, company, selected, calls, connections,
                   http_request, database>>

NextHttp == ClaudeOnlyMiddleware \/ Serve

SpecHttp == InitHttp /\ [][NextHttp]_vars

(***************************************************************************)
(* C19                                                                     *)
(***************************************************************************)
\* a Claude client-identity signal in the headers: "Claude" or "claude.ai"
\* in the User-Agent, "claude.ai" in the Origin or in the Referer
ClaudeSignal(req) ==
    \/ /\ req.user_agent # None
       /\ \/ Contains(req.user_agent[1], "Claude")
          \/ Contains(req.user_agent[1], "claude.ai")
    \/ req.origin # None /\ Contains(req.origin[1], "claude.ai")
    \/ req.referer # None /\ Contains(req.referer[1], "claude.ai")

\* C19: a request is forwarded if and only if it is an OPTIONS request, or
\* its path is under /.well-known, or its headers carry a Claude signal;
\* every other request is answered 403 with the forbidden body.
C19_OnlyClaudeForwarded ==
    response # None =>
        LET req == Unwrap(http_request)
            answer == Unwrap(response)
            allowed == \/ req.method = "OPTIONS"
                       \/ StartsWith(req.path, "/.well-known")
                       \/ ClaudeSignal(req)
        IN  /\ answer.forwarded <=> allowed
            /\ ~allowed => answer.status = 403 /\ answer.body = Forbidden.body


(***************************************************************************)
(* C21                                                                     *)
(***************************************************************************)
\* what the compiler gives for each request of SearchRequests when it is the
\* only invocation, written out
AloneQuery(search_request) ==
    CASE search_request = SearchRequest(None, None, None, None, None, None) ->
           Some("SELECT * FROM hello_nest WHERE 1=1 ORDER BY company_name LIMIT 1000")
      [] search_request.company_name = Some("Test Company") ->
           Some("SELECT * FROM hello_nest WHERE 1=1 AND company_name ILIKE '%Test Company%' AND foundation_year BETWEEN 2020 AND 2023 ORDER BY company_name LIMIT 1000")
      [] OTHER -> None
AloneError(search_request) ==
    CASE search_request.company_name = Some("'; DROP TABLE hello_nest; --") ->
           Some("Invalid characters in company name")
      [] search_request.foundation_year = Some(<<2023, 2020>>) ->
           Some("Minimum year cannot be greater than maximum year")
      [] OTHER -> None

\* a company_search invocation that has gone through the compiler
HasCompiled(call) ==
    /\ calls[call].tool = "company_search"
    /\ \/ calls[call].pc = "query"
       \/ Returned(call) /\ calls[call].failed # "connection"

\* C21: whatever other invocations run at the same time and however their
\* steps interleave, a company_search invocation that has gone through the
\* compiler holds the query, or has returned the validation error, that its
\* request gives when it is compiled alone.
C21_CompilationUnaffectedByOthers ==
    \A call \in DOMAIN calls :
        HasCompiled(call) =>
            LET search_request == Unwrap(calls[call].search_request) IN
            /\ calls[call].sql = AloneQuery(search_request)
            /\ AloneError(search_request) # None =>
                 /\ Returned(call)
                 /\ Unwrap(calls[call].outcome).kind = "invalid_params"
                 /\ Unwrap(calls[call].outcome).message
                        = Unwrap(AloneError(search_request))
            /\ AloneError(search_request) = None =>
                 calls[call].failed # "validation"

\* two company_search invocations with different requests have both gone
\* through the compiler, one accepted and one rejected
C21_Witness ==
    \E c1, c2 \in DOMAIN calls :
        /\ HasCompiled(c1) /\ HasCompiled(c2)
        /\ calls[c1].search_request # calls[c2].search_request
        /\ calls[c1].sql # None
        /\ calls[c2].failed = "validation"


(***************************************************************************)
(* C22                                                                     *)
(***************************************************************************)
NotBlank(s) == ~Blank(s)
\* a request with every blank text value taken out: a blank name or purpose
\* becomes absent, blank category entries leave the list
BlankToAbsent(r) ==
    [r EXCEPT
       !.company_name = IF @ # None /\ Blank(@[1]) THEN None ELSE @,
       !.company_purpose = IF @ # None /\ Blank(@[1]) THEN None ELSE @,
       !.nace_categories = IF @ # None THEN Some(SelectSeq(@[1], NotBlank))
                           ELSE @]
\* every text value of the request is absent or blank
OnlyBlankTexts(r) ==
    /\ r.company_name # None => Blank(r.company_name[1])
    /\ r.company_purpose # None => Blank(r.company_purpose[1])
    /\ r.nace_categories # None =>
         \A k \in 1..Len(r.nace_categories[1]) : Blank(r.nace_categories[1][k])

\* C22: the result of compiling a request is the result of compiling the
\* same request with its blank name, blank purpose and blank category
\* entries taken out; a request whose text values are all blank is never
\* rejected for a text field, and is accepted when it has no range.
C22_BlankTextSkipped ==
    Compiled =>
        /\ result = build_company_search_query(BlankToAbsent(request))
        /\ OnlyBlankTexts(request) =>
             /\ result.message \notin
                    {NameMessage, CategoriesMessage, PurposeMessage}
             /\ request.foundation_year = None /\ request.revenue_range = None
                  /\ request.employee_range = None
                  => Accepted

\* a compiled request with a blank name, a blank purpose and a category
\* list holding a blank entry next to a real one
C22_Witness ==
    /\ Accepted
    /\ request.company_name # None /\ Blank(request.company_name[1])
    /\ request.company_purpose # None /\ Blank(request.company_purpose[1])
    /\ BlankToAbsent(request) # request


(***************************************************************************)
(* The create-db command (main.rs, Command::CreateDb; duckdb.rs,           *)
(* create_hello_nest_table).  pc is the statement the command stands at,   *)
(* result what it has printed and the error it panicked with, if any.      *)
(***************************************************************************)
CreatingLine == "Creating database table..."
CreatedLine == "Database table 'hello_nest' created successfully!"

Printed(lines, panic) == [printed |-> lines, panic |-> panic]

InitCreateDb ==
    /\ request = SearchRequest(None, None, None, None, None, None)
    /\ result = Printed(<< >>, None)
    /\ pc = "create-db"
    /\ NoRow /\ NoCalls /\ NoHttp
    /\ database \in {Database(file, parquet, hello_nest, 0) :
                        file \in BOOLEAN, parquet \in BOOLEAN,
                        hello_nest \in OptionOf(SUBSET Companies)}

CreateDbVars ==
    <<request, company, selected, calls, connections, http_request, response>>

\* Err(e).unwrap()
Panic(e) ==
    /\ result' = [result EXCEPT !.panic = Some(e)]
    /\ pc' = "panicked"

\* println!("Creating database table..."); DuckDB::new_default().await.unwrap()
CreateDbConnect ==
    /\ pc = "create-db"
    /\ LET opened == engine_open(new_default_access_mode, database) IN
       IF ~opened.ok
       THEN /\ result' = Printed(<<CreatingLine>>, Some(opened.error))
            /\ pc' = "panicked"
            /\ UNCHANGED database
       ELSE /\ database' = opened.db
            /\ \/ /\ result' = Printed(<<CreatingLine>>, None)
                  /\ pc' = "drop"
               \/ \E e \in { EngineError(PragmaFailure),
                             WithContext(EngineError(SecretFailure),
                                         "Failed to create s3 credentials") } :
                    /\ result' = Printed(<<CreatingLine>>, Some(e))
                    /\ pc' = "panicked"
    /\ UNCHANGED CreateDbVars

\* self.conn.execute("DROP TABLE IF EXISTS hello_nest", [])?
DropTable ==
    /\ pc = "drop"
    /\ \E dropped \in engine_drop_table_if_exists(new_default_access_mode,
                                                  database) :
         IF dropped.ok
         THEN /\ database' = dropped.db
              /\ pc' = "inspect"
              /\ UNCHANGED result
         ELSE /\ Panic(dropped.error)
              /\ UNCHANGED database
    /\ UNCHANGED CreateDbVars

\* match self.inspect_parquet_schema() { Ok(_) => {} Err(_) => {} }
InspectParquet ==
    /\ pc = "inspect"
    /\ pc' = "create"
    /\ UNCHANGED <<result, database, CreateDbVars>>

\* self.conn.execute(create_sql, []).context(..)?; Ok(()), then the unwrap
\* and the println! of main
CreateTable ==
    /\ pc = "create"
    /\ LET created == engine_create_table(new_default_access_mode, database) IN
       IF created.ok
       THEN /\ database' = created.db
            /\ result' = [result EXCEPT !.printed = Append(@, CreatedLine)]
            /\ pc' = "done"
       ELSE /\ Panic(WithContext(created.error,
                                 "Failed to create hello_nest table"))
            /\ UNCHANGED database
    /\ UNCHANGED CreateDbVars

NextCreateDb == CreateDbConnect \/ DropTable \/ InspectParquet \/ CreateTable

SpecCreateDb == InitCreateDb /\ [][NextCreateDb]_vars

(***************************************************************************)
(* C23                                                                     *)
(***************************************************************************)
\* the command has printed the success line
SuccessPrinted ==
    \E k \in 1..Len(result.printed) : result.printed[k] = CreatedLine
\* the command has stopped for a reason of the connection: the file could
\* not be opened or the connection could not be configured
ConnectionPanic ==
    /\ pc = "panicked"
    /\ RootCause(Unwrap(result.panic))
         \in {MissingFileFailure, PragmaFailure, SecretFailure}

\* C23: whenever the success line is printed the table hello_nest exists and
\* holds the rows of the parquet file; and a run on an existing database
\* file with a readable parquet file, once through the connection, ends
\* with the table dropped and created anew and the success line printed.
C23_CreateDbRecreatesTable ==
    /\ SuccessPrinted => database.hello_nest = Some(ParquetRows)
    /\ pc \in {"done", "panicked"} /\ database.file /\ database.parquet
           /\ ~ConnectionPanic
         => /\ pc = "done"
            /\ SuccessPrinted
            /\ database.hello_nest = Some(ParquetRows)


(***************************************************************************)
(* Company names with the pattern characters of ILIKE in them.             *)
(***************************************************************************)
PatternAlphabet == {"a", "B", "%", "_", " "}
PatternNames ==
    UNION {[1..n -> PatternAlphabet] : n \in 0..MaxTextLen}
\* a function over 1..n written as a text
RECURSIVE AsText(_)
AsText(chars) ==
    IF Len(chars) = 0 THEN "" ELSE Head(chars) \o AsText(Tail(chars))

InitName ==
    /\ request \in {SearchRequest(Some(AsText(name)), None, None, None, None,
                                  None) : name \in PatternNames}
    /\ result = NoResult
    /\ pc = "received"
    /\ NoRow /\ NoCalls /\ NoHttp /\ NoDatabase

SpecName == InitName /\ [][Next]_vars

(***************************************************************************)
(* C24                                                                     *)
(***************************************************************************)
NameLead == "company_name ILIKE '"
\* the pattern of the name condition of a query: the text of its literal
NamePattern(sql) ==
    LET from == SetMin(Positions(sql, NameLead)) + Len(NameLead)
        close == SetMin({q \in from..Len(sql) : CharAt(sql, q) = "'"})
    IN  SubSeq(sql, from, close - 1)

\* C24: the name condition of an accepted request is
\* company_name ILIKE '%<trimmed name>%', and between the two enclosing %
\* the pattern holds no wildcard of ILIKE, neither % nor _.
C24_NameMatchedLiterally ==
    Accepted /\ NameSupplied(request) =>
        LET pattern == NamePattern(result.sql)
            inner == SubSeq(pattern, 2, Len(pattern) - 1)
        IN  /\ pattern = "%" \o Stripped(request.company_name[1]) \o "%"
            /\ ~Contains(inner, "%")
            /\ ~Contains(inner, "_")

\* the half of C24 that holds: the pattern is the trimmed name between two %
NamePatternIsTrimmedName ==
    Accepted /\ NameSupplied(request) =>
        NamePattern(result.sql)
            = "%" \o Stripped(request.company_name[1]) \o "%"


(***************************************************************************)
(* C25                                                                     *)
(***************************************************************************)
WrapperHead ==
    "SELECT COALESCE(json_group_array(to_json(row_data)), '[]') FROM ("
WrapperTail == ") as row_data"
\* the texts the invocations have submitted to the engine
SubmittedTexts ==
    UNION { {connections[k].submitted[n] :
                n \in 1..Len(connections[k].submitted)} :
            k \in DOMAIN connections }

\* C25: whatever invocations of company and company_search have run, with
\* whatever sql text, the database holds what it held before the first of
\* them, and every text submitted to the engine is the wrapping SELECT with
\* the sql as its subquery.
C25_DatabaseUnchanged ==
    /\ database = ServedDatabase
    /\ \A text \in SubmittedTexts :
         /\ StartsWith(text, WrapperHead)
         /\ EndsWith(text, WrapperTail)
         /\ Len(text) >= Len(WrapperHead) + Len(WrapperTail)

\* an invocation of company has executed a query that calls nextval and
\* another one a DROP TABLE
C25_Witness ==
    \E c1, c2 \in DOMAIN calls :
        /\ calls[c1].sql = Some("SELECT nextval('company_seq')")
        /\ calls[c1].executed = 1
        /\ Unwrap(calls[c1].outcome).kind = "success"
        /\ calls[c2].sql = Some("DROP TABLE hello_nest")
        /\ calls[c2].executed = 1
        /\ Cardinality(SubmittedTexts) = 2


(***************************************************************************)
(* query_all_json on sql texts with every ending.                          *)
(***************************************************************************)
MaxSqlLen == 3
SqlAlphabet == {"1", ";", "\n", " "}
RECURSIVE SqlEndings(_)
SqlEndings(n) ==
    IF n = 0 THEN {""}
    ELSE LET shorter == SqlEndings(n - 1) IN
         shorter \cup {s \o c : s \in shorter, c \in SqlAlphabet}
\* SELECT and what may follow it
SqlTexts == {"SELECT " \o ending : ending \in SqlEndings(MaxSqlLen)}

InitWrap ==
    /\ request \in [sql : SqlTexts]
    /\ result = NoResult
    /\ pc = "received"
    /\ NoRow /\ NoCalls /\ NoHttp /\ NoDatabase

\* let json_sql = format!(..) of query_all_json
Wrap ==
    /\ pc = "received"
    /\ result' = [kind |-> "json_sql", sql |-> json_sql(request.sql),
                  message |-> ""]
    /\ pc' = "wrapped"
    /\ UNCHANGED <<request, company, selected, calls, connections,
                   http_request, response, database>>

NextWrap == Wrap

SpecWrap == InitWrap /\ [][NextWrap]_vars

(***************************************************************************)
(* C26                                                                     *)
(***************************************************************************)
\* the subquery of a wrapped query: what stands between the head and the
\* tail of the wrapper
Subquery(text) ==
    SubSeq(text, Len(WrapperHead) + 1, Len(text) - Len(WrapperTail))

\* C26: the subquery of every wrapped query has no white space at either
\* end and does not end with a semicolon.
C26_SubqueryWithoutTerminator ==
    pc = "wrapped" =>
        LET subquery == Subquery(result.sql) IN
        /\ subquery = Stripped(subquery)
        /\ ~EndsWith(subquery, ";")

\* the half of C26 that holds: no white space at either end
SubqueryTrimmed ==
    pc = "wrapped" => Subquery(result.sql) = Stripped(Subquery(result.sql))


(***************************************************************************)
(* C27                                                                     *)
(***************************************************************************)
\* the string argument of the match_bm25 call that starts at position p
MatchArgument(sql, p) ==
    LET from == p + Len(MatchCall)
        close == SetMin({q \in from..Len(sql) : CharAt(sql, q) = "'"})
    IN  SubSeq(sql, from, close - 1)

\* C27: an accepted query with a purpose filter calls match_bm25 once before
\* ORDER BY and once after it, and the two calls have the same string
\* argument.
C27_SameFullTextQuery ==
    Accepted /\ PurposeSupplied(request) =>
        LET calls_at == Positions(result.sql, MatchCall)
            order_at == SetMin(Positions(result.sql, " ORDER BY "))
        IN  /\ Cardinality(calls_at) = 2
            /\ SetMin(calls_at) < order_at
            /\ SetMax(calls_at) > order_at
            /\ MatchArgument(result.sql, SetMin(calls_at))
                   = MatchArgument(result.sql, SetMax(calls_at))
            /\ MatchArgument(result.sql, SetMin(calls_at)) # ""

\* an accepted purpose with white space around it, next to other filters
C27_Witness ==
    /\ Accepted
    /\ PurposeSupplied(request)
    /\ StartsWith(request.company_purpose[1], " ")
    /\ Cardinality(Positions(result.sql, MatchCall)) = 2


(***************************************************************************)
(* C28                                                                     *)
(***************************************************************************)
Bit(b) == IF b THEN 1 ELSE 0

\* C28: in every query returned there is no semicolon and no -- at all, the
\* single quotes are exactly those the compiler writes (two around the name
\* pattern, two around each category entry, two around each of the two
\* purpose arguments, and the 36 around the nine years and metric names of
\* each range condition), and the text read
\* back from inside each literal is the trimmed text of the request, which
\* holds no single quote, no semicolon and no --.
C28_CallerTextInsideLiterals ==
    Accepted =>
        LET list == IF request.nace_categories = None THEN << >>
                    ELSE request.nace_categories[1]
        IN  /\ Count(result.sql, ";") = 0
            /\ Count(result.sql, "--") = 0
            /\ Count(result.sql, "'")
                 = 2 * Bit(NameSupplied(request))
                     + 2 * Len(SolidEntries(list))
                     + 4 * Bit(PurposeSupplied(request))
                     + 36 * Bit(RevenueSupplied(request))
                     + 36 * Bit(EmployeesSupplied(request))
            /\ NameSupplied(request) =>
                 /\ NamePattern(result.sql)
                      = "%" \o Stripped(request.company_name[1]) \o "%"
                 /\ ~Unsafe(NamePattern(result.sql))
            /\ CategoryLiterals(result.sql) = SolidEntries(list)
            /\ \A k \in 1..Len(CategoryLiterals(result.sql)) :
                 ~Unsafe(CategoryLiterals(result.sql)[k])
            /\ PurposeSupplied(request) =>
                 \A p \in Positions(result.sql, MatchCall) :
                    /\ MatchArgument(result.sql, p)
                         = Stripped(request.company_purpose[1])
                    /\ ~Unsafe(MatchArgument(result.sql, p))

\* an accepted request with a name, two category entries and a purpose,
\* each holding a lone hyphen or white space to be trimmed
C28_Witness ==
    /\ Accepted
    /\ NameSupplied(request) /\ PurposeSupplied(request)
    /\ CategoriesSupplied(request)
    /\ Count(result.sql, "'") >= 8


(***************************************************************************)
(* C29                                                                     *)
(***************************************************************************)
\* the first filter of a request that is invalid, in the order name,
\* foundation year, categories, purpose, revenue, employees
FirstInvalid(r) == SetMin({f \in 1..6 : Invalid(r)[f]})

\* the message of an invalid numeric range: the order of the bounds comes
\* before their sign
NumericMessage(range, order_message, bounds_message) ==
    IF Halves(range[1]) > Halves(range[2])
    THEN order_message ELSE bounds_message

\* the message of filter f of a request in which it is invalid
MessageOf(r, f) ==
    CASE f = 1 -> NameMessage
      [] f = 2 -> YearMessage(r)
      [] f = 3 -> CategoriesMessage
      [] f = 4 -> PurposeMessage
      [] f = 5 -> NumericMessage(r.revenue_range[1], RevenueOrderMessage,
                                 RevenueBoundsMessage)
      [] f = 6 -> NumericMessage(r.employee_range[1], EmployeesOrderMessage,
                                 EmployeesBoundsMessage)

\* C29: a request is rejected exactly when one of its filters is invalid,
\* and the error is then the one of the first invalid filter in the order
\* name, foundation year, categories, purpose, revenue, employees, whatever
\* the later filters hold; for a range whose bounds are both out of order
\* and out of their domain it is the error of the order.
C29_FirstInvalidFilterReported ==
    Compiled =>
        /\ Rejected <=> \E f \in 1..6 : Invalid(request)[f]
        /\ Rejected =>
             /\ result.message = MessageOf(request, FirstInvalid(request))
             /\ result.sql = ""

\* a rejected request in which three filters are invalid, the foundation
\* year first among them
C29_Witness ==
    /\ Rejected
    /\ ~NameUnsafe(request)
    /\ YearInvalid(request)
    /\ CategoriesUnsafe(request)
    /\ RevenueInvalid(request)
    /\ result.message = YearMessage(request)

====
